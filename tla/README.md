# Usine in TLA+

Usine runs coding Tasks: it admits a contract, lets a coding session write a candidate commit, checks it, has
it reviewed, and delivers it as a pull request or a merge; Campaigns plan such Tasks for a Goal until its Outcomes are
met. What must not go wrong is durable and concurrent:
one writer per Repository, evidence that is about the commit it is used for, budgets that survive restarts,
nothing redone after an approval, nobody forgotten in a wait, no result that is not the whole of what happened. This
directory models the program from the source (`src/packages`, `src/apps`), checks it with TLC and proves with TLAPS
what Task Authority guarantees, that Delivery Run keeps to it and leaves no Task unattended, what Forge Delivery
promises, that a Campaign accepts and abandons only as it should, that candidates, verdicts and results of sessions are
what they say they are, that reads miss nothing, and that the profile evaluation cleans up after itself.

## The system

| Component | State it keeps | Operations | Hard because |
| --- | --- | --- | --- |
| Task Authority (`task-authority`) | SQLite rows: one TaskResult per Task, one lease per Repository, an append-only event table, Repositories | admission; facts `record*`, `block`; reservations of activations and reviews; `retryTask`; recovery observations; registration | every caller may be stale: facts arrive after a retry, a restart or a replacement moved the row |
| Delivery Run (`delivery-run`) | the TaskResult last seen, per execution | the loop candidate, check, review, delivery; repair, waits and recoveries | awaits everything; errors of any origin end in one catch |
| Server (`runtime/server.ts`, `runtime.ts`) | running Task operations, abort controllers, pipeline timers, an owner identity per process | submit, retry, launch (deduplicated or replacing), timers, close, restart | launches, timers, retries and restarts race for one Task |
| Campaigns (`runtime/campaign.ts`, `server.ts`) | SQLite rows: Campaigns, proposals, assessments, replacement runs, model runs; a coordination chain and one fiber of model work per process | publish, propose, hand off, checkpoint, reconcile, admit, assess, replace, abandon | models answer late, coordination works on rows it read before, requests for work are coalesced |
| Candidate Workspace | Git worktrees per activation, checkouts per commit | prepare, freeze, quarantine, checkout | a later activation removes an earlier one's worktree while it runs; paths are shared |
| Quality Gate | none | check, acceptance checks, review | the checkout may go under a command; unavailable is neither pass nor fail |
| Forge Delivery | none of its own: GitHub's branch, pull request, attestation, merge | deliver, reconcile, merge gates | effects may have happened although the answer was lost |
| Coding Session (`coding-session`) | one archive file per session, provider processes | run a turn, interrupt, archive, prune | two providers' protocols, cancellation, a directory all sessions share |
| Event hub and Task observation | committed history, bounded queues of listeners | publish, subscribe, follow, read evidence, page | slow readers, status and history read apart, Tasks admitted between two pages |
| Hermes bridge (`apps/hermes-bridge`) | what it last saw of each Task, two webhook signals | subscribe, reconcile, hint | hints coalesce, outages are reconciled from a limited list |
| Profile evaluations (`apps/cli`) | none durable; the server's registration while they run | register, submit, follow, compare, clean up, restore | any call may fail with its effect made; missing evidence must not count |
| HTTP API, policy, private state, CLI commands, Campaign evidence | configuration, files | parsing, transport, formatting | - |

Interactions: the server calls `executeServerTask` for each launch; it verifies the contract and runs
`executeDeliveryRun`, which calls Task Authority (synchronously committed transactions), the workspace, the
coding session, the Quality Gate and the Forge. A result that waits for pipeline checks makes the server arm a timer;
the timer, an operator's retry, a second submission or a restart launch again. Abort signals flow from the
server to everything an execution awaits. A Campaign request, the end of a Task and the end of model work each queue a
coordination, which reconciles the Campaigns, admits the ready proposals, launches their Tasks and asks for model work;
the model work assesses Outcomes and drafts corrections through coding sessions. Clients (CLI, bridge, evaluations) see
the server through its API only.

The hazards the properties are aimed at are listed, at their lines, in `PROJECT.json`.

## The modules

### Tasks

- **`WriterLeases.tla`**: what the authority promises about work in progress: a Task starts once, ends once,
  never beside another Task of its Repository, never past the capacity.
- **`TaskAuthority.tla`**: `task-state.ts` (the reducer) and the transactions of `task-authority.ts`. Each fact
  has a condition `Accepts...` and a result `Apply...`, as a branch of `applyTaskFact` has; each transaction has
  a guard `Can...` and an action that ends with `Save` (revision, event, lease release). `Next` lets any caller
  call anything at any time: what the module's properties say does not rest on a well-behaved caller.
- **`DeliveryRun.tla`** EXTENDS it with the real callers: executions (`runs`), each with what it has seen, the
  server's launches and timers, close, crash and restart. A call of the authority commits and updates what the
  execution has seen, or throws; a throw goes through `executeAdmittedTask`'s catch as in the code. Between two
  calls anything else may happen.

State and code: `task` is `task_runs.result`, `lease` is `repository_leases`, `events` is
`task_events` (identities only), `expired` is the clock against `deadlineEpochMs`; `runs` are the entries of
`activeTaskOperations` with `seen` the `result` variable of `executeDeliveryRun`; `timers` is
`pipelineRecoveryTimers`; `pending` is an API request, or a step of the restart loop, between its transaction and its
`launchTask`; `process` is `executionOwnerId`.

### Delivery

- **`DeliveryEffects.tla`**: what Forge Delivery promises: attest, merge once and with authority what is attested, report
  once what landed.
- **`ForgeDelivery.tla`**: `deliver()` as a client of GitHub. Each request of `reconcile()` is an action that reads or changes
  GitHub's state and decides what comes next; between two of them other people push, delete, open, close, merge, comment
  and turn gates; a write may be refused, fail, have its effect without an answer, or have it later.
  Delivery Run's part is cut down to what it does with the outcome (`RecordOutcome`, `Resume`).
- **`ForgeGates.tla`**: the two folds behind the review and the pipeline gate, over evidence that grows on GitHub, against
  what they must mean. An App that reviews as a Bot (`Bots`) is known by a lookup only, one per reading, and `answering` are
  the ones whose lookup answers: `ReviewGateIsExact` is claimed for each such set, so it says what the gate does when a trusted
  App's identity is not known, and `TrustedBlocksHold`, which the documents promise, is false then.
  ForgeDelivery takes from the folds only that a gate is open or not (`greens`).

State and code: `branch`, `prs`, `own`, `foreign`, `greens` and `late` are
GitHub (the delivery branch, its pull requests, the App's and other people's marked comments, open gates, requests
not yet acted upon), `local` is the registered checkout, `call` is the running `deliver()` with its place in `reconcile()`
and its locals, `task` and `report` are the state and the delivery in the Task's row.

### Campaigns

- **`Campaign.tla`**: `campaign.ts`, the durable facts and one operator per transaction: publication and supersession of versions
  of a Goal, proposals, handoff, checkpoints, `reconcileCampaigns` (blockers, dependency release, the base a dependent starts
  from, decisions and acceptance), admission, and the two protocols that reserve a model run, ask the model and persist
  its answer if it is still about the present evidence.
- **`CampaignServer.tla`** EXTENDS it with the part of `server.ts` that interleaves these transactions: the coordination chain
  (`coord`, which admits from rows it read earlier), `queueCampaignModelWork` with its generation and `onlyIfMissing`
  (`queued`, `work`), Task executions with their settling and timers (`exec`), the handler of an abandonment
  (`abandoning`), retries, crash and restart. A Task is what a Campaign tells apart of it; TaskAuthority and DeliveryRun
  are its own protocol.

### Components used through their results

- **`SessionArchive.tla`**: `session-archive.ts`: writers that rewrite their file as a record grows, and retention passes over the
  directory all sessions share. **`CodingSession.tla`** EXTENDS it with the facade of `coding-session.ts` over the SDK adapter:
  a session from request to observation.
- **`AppServerSession.tla`** (`codex-app-server.ts`) and **`OpenCodeSession.tla`** (`opencode2-adapter.ts`): one turn over
  each provider: the child or owned server, bounded queues and streams, callbacks, cancellation, cleanup.
- **`CandidateWorkspace.tla`**: writer worktrees, Git command by Git command, for activations that overlap.
  **`QualityGate.tla`**: check, acceptance checks and review in disposable checkouts, for executions that overlap.
- **`TaskObservation.tla`**: committing and dispatching events, subscriptions, `followTask` and `taskEvidence`.
  **`TaskPages.tla`**: cursors and paged reads while Tasks are admitted.
- **`HermesBridge.tla`**: subscription, reconciliation, tracked Tasks, the coalescing webhook dispatcher. A signal says which
  Tasks it makes the agent look at (`about`: one for an attention hint, all for a reconciliation, none for an announcement), and
  only these leave `unheard` when its delivery begins; a full queue drops what it is offered. A reconciliation observes the listed Tasks in
  the order of the list, then the other tracked ones as they answer, and what it observed stays if one of them fails. `bridge` is the fiber of
  `startBridge`: `starting`, `connecting` and `subscribed` are its places, `lost` and `down` those of an outage, `announcing` one that
  waits for a webhook delivery on the way to `next`.
- **`ProfileEvaluation.tla`**: the implementer evaluation against the server as its clients see it. **`ProfileComparison.tla`**: what
  both evaluations conclude from their evidence: lists of Tasks with their sessions, or of reviews, on each side, with every metric of
  `EvaluationMetricSet` kept apart, so that a side may spend less of one and more of another.
- **`MCComponents.tla`** runs these, and ForgeGates, as one specification: `part` names the component a behaviour is of,
  and nothing else moves, so the run's states are the sum of the components' states, not the product. Each module has a
  specification of its own as well.

### Proofs and instances

**`TaskAuthority_proofs.tla`**, **`DeliveryRun_proofs.tla`**, **`ForgeDelivery_proofs.tla`**, **`Campaign_proofs.tla`**,
**`Activation_proofs.tla`** (CandidateWorkspace, CodingSession, AppServerSession, OpenCodeSession), **`QualityGate_proofs.tla`**,
**`Reads_proofs.tla`** (TaskObservation, TaskPages, HermesBridge, ForgeGates), **`ProfileEvaluation_proofs.tla`** (and ProfileComparison): see
"What is proved". **`MCTaskAuthority.tla`**, **`MCDeliveryRun.tla`**, **`MCForgeDelivery.tla`**, **`MCCampaign.tla`**, **`MCComponents.tla`** and
the `.cfg` files: the instances.

### Abstractions

Each module's header names its own. In TaskAuthority and DeliveryRun a commit is its position on the Task's branch (`freeze`
returns strict descendants only), a payload
that no guard reads is left out, an event is its identity. A blocker is one of `elapsed_budget` (deadline), `conflict`
(an error of the authority reached the catch) and `failure` (everything else). Sessions, checks, reviews and the
Forge return any outcome their code can return. Failure classes are `transient` and one deterministic class:
`cancellation` reaches a result only when the signal is aborted, and then the abort is thrown first
(`coding-activation.ts:112-143`). Timers and the deadline are untimed, except for one assumption: when a pipeline timer
fires (15 s after it was armed, or at the deadline), an execution that was told to stop has stopped, and one still
alive is inside a service or a local git read (`FireTimer`). A process runs its transactions in request order
(`enqueueTransaction`), which `CompleteLaunch` uses. In ForgeDelivery a SHA is the approved one or another, a request's failure
is transient (transport, 408, 409, 429, 5xx), definite (any other status) or of authentication, and waiting between
attempts takes no time. In Campaign an evidence hash is the evidence, an Outcome has textual criteria, and the guardian's
plan and the drafts a planner may give are constants.

Operators commented `Fault:` are not part of any specification. Each is a plausible wrong version of the definition
after it; substituting it must violate the property `PROJECT.json` pairs it with, which shows that the property can
fail.

## What is checked

| Run | Instance | Properties | Distinct states |
| --- | --- | --- | --- |
| `authority` | one Task with two activations, two commits, two review cycles; or four Tasks competing for three Repositories and two places, each with its admission and one fact | `EvidenceChain`, `AwaitedEvidence`, `ReviewAccounting`, `HistoryEndsWithTheTask`, `LeaseMatchesActive`, `NewestWriterPublishes`, `TerminalIsFinal`, `ImplementsWriterLeases` | 277 038 |
| `run_interleavings` | one Task, two executions, two processes, retries and second submissions, one wait | `OneLiveExecution`, `OneWriterPerRepairBatch`, `ApprovedBundleIsFinal`, `CloseReleasesReviews` | 556 652 |
| `run_settles` | two executions, two processes, one submission, two waits, `RunFairness` | `NoTaskIsStranded`, `OperatorWaitsResumeByRetry`, `Settles` | 280 292 |
| `delivery_conflicts` | two pull request numbers, two changes by others, two failures, a deadline | `ReportedEffectIsReal`, `ImplementsEffects` | 505 560 |
| `delivery_recovers` | three failures, nobody interferes, `FairSpec` | `RetriesNeverConflict`, `EveryApprovalIsDelivered` | 8 448 |
| `campaign_model` | two proposals of the plan and a draft, a checkpoint, one disturbance | `AcceptedIsProven`, `SupersededWorkIsUnowned` | 303 181 |
| `campaign_plan` | two versions of a Goal, a dependent behind a merge, one abandonment | `NothingRunsAfterAbandonment`, `DependentsWaitForDelivery`, `BasesNeverMove`, `LateAnswersChangeNothing` | 654 021 |
| `campaign_settles` | a proposal that merges and a draft, one disturbance, `FairSpec` | `CampaignsSettle` | 47 237 |
| `components` | eleven components, each on its own instance | `AppResultIsWhole`, `OpenCodeResultIsTerminal`, `FrozenIsOwnWork`, `VerdictsAreOfTheirCommit`, `ListenersSeeNoGap`, `ReadersSeeTheStatusThrough`, `PagesListEachTaskOnce`, `NoHintIsForgotten`, `ReviewGateIsExact`, `PipelineGateIsExact`, `RecommendationsAreEarned`, `NothingIsLeftBehind`, `TasksRunUnderOneProfile`, `ReportIsArchived` | 2 162 072 |
| `doc_retry_race`, `doc_campaign_stuck` | as the runs of their modules | `ApprovedBundleSurvivesRetry`, `PlansAreDecided`: disagreements, see below | - |
| `doc_review_lookup` | a trusted user and a trusted App that reviews as a Bot | `TrustedBlocksHold`: a disagreement, see below | - |

Type invariants: every module with proofs has one, proved (`TypeOK`, `RunTypeOK`); the proofs make a run of them superfluous, and so
they do of `WithinCapacity`.

Bounds. Two commits and two activations give one repair after the first candidate, so old and new evidence coexist; two
review cycles let an attempt be taken over and a budget run out; eleven revisions let TLC go through admission,
reservation, candidate, check, review, repair and a second candidate with its check and review
with waits between them. Two executions are what `launchTask` can overlap
(the replaced one and its replacement; a third would need a second replacement before the first has honoured its
signal). `MaxRevision = 40` is not reached in the `run_*` instances. `VIEW` leaves out the event history (in `authority` of the four Tasks only), which no guard
reads and no property of those instances mentions; symmetry is over identities that are only compared.
`CHECK_DEADLOCK FALSE`: Tasks, sessions and reads end. A delivery branch has one open pull request; a second number is what a
person's, or a late request's, pull request needs. Two changes by others give a closed pull request and a new one, or a moved
branch and a foreign comment; two failures give a lost merge and a failure of the call that should find it.

The Campaign instances split three questions, since their product is out of reach. `campaign_model` has both roles of
the model, a draft that replaces and a checkpoint that supersedes; `campaign_plan` has a dependent behind a merge (two
commits of the base branch, so that a base can be stale) and a second version of the Goal, published while the first
is at work, and the abandonment of the first at any time; `campaign_settles` has a merge with its wait for pipeline checks, a correction
by a draft, and every way to stop and come back, once. One disturbance (a crash, a hold by a Task for its operator, a
retry, a failed model run or a rejected draft) is enough to lose any volatile state at any step.

In `components`: two sessions, one of which may fail, with room for one archive, are enough for one's retention pass to meet the
other's archive; six lines over a queue of two, a queue that fills and an exit with lines queued; two steps and seven events with
two under way, either end of the turn before the other; two activations and two verifiers, an earlier one and its successor, with two
candidates and two acceptance checks; three events on pages of one with a listener's queue of one; five Tasks on pages of two,
of which any may be admitted between two pages; two Tasks with an observation limit of one; three reviewers, one of
them an App whose lookup may fail, on pages of two with up to three items, so that one item is left out; for the comparison sides of one Task with up to two
sessions, known and unknown, sides of two Tasks, and spendings of which neither is the smaller; one pair of
Tasks, another client's Task and two runs of the command for the evaluation.

Fairness. `RunFairness`: weak fairness of each execution's next step (an awaited service returns; sessions, checks
and HTTP calls all have timeouts), of settling, of a requested launch, of an armed timer, of completing a close
and of restarting a stopped server. Nobody is obliged to submit or retry; no deadline must pass; no process must crash.
The number of processes is bounded: with unboundedly many crashes nothing would settle. `FairSpec` of ForgeDelivery is weak
fairness of `deliver()`'s next step (every request ends or times out) and of taking a waiting Task up again (the server's
timer does so for pipeline evidence, an operator for a review). `EveryApprovalIsDelivered` also supposes, in its run, that
nobody interferes, that no request acts after it failed, that there is no deadline and the token exchange works; its antecedent says that
the selected gates turn green. `FairSpec` of CampaignServer is weak fairness of the coordination chain or the restart, of
the model work (a session ends or times out), of a Task's execution and of an abandonment's handler: promises, immediates
and timers of one event loop. It supposes strong fairness of one thing, that an execution that is again and again able to deliver
does (its checks turn green in the end). Nobody is obliged to publish, hand off, retry or abandon.

Disagreements between the code and what its documents say of it, each shown by a run that TLC finds violated (`PROJECT.json`, `findings`):

- `doc_retry_race`: an operator's retry that commits between the timer's read and its resume blocks an approved Task.
- `doc_campaign_stuck`: the Task of an admitted correction ends without a candidate. Its evidence is what it was: neither the
  assessor nor the planner is asked again, and no decision is (`campaign.ts:1664`). The Campaign stays in planning for good,
  where README.md:16 and DESIGN.md:58 promise a decision request. `CampaignsSettle` holds with exactly this case excepted (`CorrectionLost`).
- `doc_review_lookup`: the lookup of a trusted App's identity fails once (`external-review.ts:229`), its request for changes is passed over, and
  the approval of another trusted reviewer opens the gate, where DESIGN.md:327 says that a trusted request for changes blocks.

A fourth is left to `RecommendationsAreEarned`, which states what the code does: a side whose Task was blocked makes the
evaluation recommend the other side (`profile-evaluation.ts:843`), where AGENT_QUICKSTART.md:636 says `inconclusive`.
The tests (`profile-evaluation.test.ts:889`, 945) agree with the code.

## What is proved

`TaskAuthority_proofs.tla` proves, for any set of Tasks, Repositories, owners, budgets and any capacity and bounds
(the named `ASSUME`s of `TaskAuthority.tla`: functions have their domains, limits are naturals or unlimited, null is no
value), that `Spec` satisfies every property of `authority`, `TypeOK` and `WithinCapacity`,
including the refinement of `WriterLeases`. Since `Next` lets callers do anything, the
results hold whatever Delivery Run and the server do.

The invariant is `IInv`: the variables' types, a lease for exactly the Tasks in progress, and for every row `RowInv`:
its type, its authorization, `SoundEvidence`, `SoundWait`, `SoundAccounts` and one strengthening, `SoundFences`: an active
reservation carries the newest activation number and exceeds the candidate's fence. Without
it the others are not inductive: a candidate is accepted for the active reservation, and only that its number is the newest one
makes the fences grow; and only the lease invariant tells that a row an operation may write has not ended. `SoundProgress`
says what a row's place stands on (a place in review on a passed check, a counted batch on requested changes) and that accepted candidates pay
for the repair batches; Delivery Run's proofs need it of the rows that stale executions write.
The argument is in three layers: (1) each `Apply...` maps a sound row, under its `Accepts...`, to a sound row (one lemma per
fact); (2) each operation is a `Save` of one such row (`FactSaves`, `ReservationSaves`, `StepShape`), and `Save` or `Admit`
keeps `IInv`; (3) each theorem follows from `Invariance` and, for the action properties and the refinement, from the shape
of a step. The history theorem has an invariant of its own about the place of the terminal event.

`DeliveryRun_proofs.tla` proves, for any number of executions and processes, `RunImplementsAuthority`: `RunSpec => Spec`.
Every call an execution, the operator or a timer makes is a step of `Next`, whose arguments `Next` quantifies over: that
the arguments are in those sets (the commit of a review, the fence of a wait, the base of a candidate) comes from the
authority's own guards and `IInv`, not from the callers. So the authority's theorems hold of the whole system (`Run...`
theorems). The invariant `RunInv` adds to `IInv` the types, that an execution, a request or a timer exists for admitted Tasks
only, and that a server that is not up has owner identities left; one lemma per kind of step
shows it `Moves` one execution and keeps its Task. `ExecutionsReplaceEachOther` proves `OneLiveExecution` on top of it.
What an execution does rests on what it remembers, and the row may have moved. `BundleInv` says how far: what it has seen is
the row or an earlier one (`SeenIsSound`); a live execution that wants a writer, and one whose writer's candidate the row would
still take, has a row that cannot be an approved one (`WritersAreDue`), and a check runs for a candidate (`ChecksAreDue`); a review attempt belongs to a
process that has run (`AttemptsAreOwned`), and the running process's to an execution that knows of it (`ReviewIsHeld`). So a
step that would redo approved work loses its compare-and-set, which is `ApprovedBundleIsFinal`, and a close that has waited for its
executions has given back their attempts (`CloseReleasesReviews`). `OneWriterPerRepairBatch` follows from the authority's `SoundProgress` alone.

`TasksAreAttended` and `OperatorWaitsAreKept` prove `NoTaskIsStranded` and `OperatorWaitsResumeByRetry` where no contract is submitted a second time
(`Resubmitted = {}`); without this they are false, see "Limits". `AttendanceInv` has three parts. `Apart`: of two executions of
one Task, one has been told to stop and can no longer start anything, nor block the Task (`Harmless`). `Minds`, of each execution: one that acts,
acts on the row as it is (`ActsOnTheRow`); one that is to be replaced, or whose Task waits, is spent or about to resume it. `Minded`, of each Task:
a launch or a timer finds a wait only of an approved bundle, and a Task the server may continue has a request under way, a
timer, or an execution that will bring it to its next wait. The argument is about what one execution's end or
throw leaves behind: `executeAdmittedTask`'s catch blocks the row it has seen, and `ActsOnTheRow` says that this is the row.
Assumed of the constants: the owner identities are `1..Processes`, null is no Task, the blockers contain the ones the code
records.

`ForgeDelivery_proofs.tla` proves, for any set of pull request numbers, policies, faults and bounds, that `Spec` satisfies `TypeOK` and
`ReportedEffectIsReal` and implements `DeliveryEffects`. Why the App cannot merge twice is not to be seen in any one step, since a
merge may be asked for, lost, asked for again after a restart and arrive late: it needs the
invariant `IInv`. GitHub's pull requests are `Numbered` (without gaps, the open one the newest, an App's merge of the approved head);
a pull request that a call has chosen or a late request merges is not newer than one the App has merged (`SoundChoice`), because `reconcile()` goes on
with a pull request only when it is the only one with the approved head, and opens one only when none exists (`SoundCreation`). An open pull
request is newer than every merged one, so a merge GitHub accepts is the first. `SoundCall` says what `deliver()` has established by each of its stages
(authority, attestation, landing). The argument: a step's effect on GitHub is one of a few moves (`HubStep`), which take nothing
back (`HubKeeps`); a step that keeps the call's own promises keeps `IInv` (`CallStep`); one lemma per action shows that it does; and each move of
`HubStep` is an abstract effect (`HubStepIsEffect`). `RetriesAgree` (`RetriesNeverConflict`) has `NobodyElse` for a hypothesis of
its invariant: while nobody interferes and no request acts late, GitHub is `Calm`, at most one pull request and one attestation, as the call has
read or left them, whatever was lost and retried. Assumed: numbers are a finite set of positive naturals, the two SHAs differ,
null is no value, and the faults are the three the code tells apart.

`ProfileEvaluation_proofs.tla` proves, for any number of pairs and of runs of the command, `TasksRunUnderOneProfile` and
`NothingIsLeftBehind`. The first needs of the server that a Task in progress has run under the registered profile only
(`OneProfile`): a registration that changes anything finds nothing in progress. The second needs of the command that the Task in
flight is the only one of those it followed that may be in progress (`Accounted`), and that there is one exactly at
the steps of following and cleanup (`SoundFlight`); what it saw to be over in its preflight stays over, since no Task goes back (`GoesOn`).
Each step of the command is a failure, an end, or goes on (`FailureIsSound`, `EndIsSound`, `GoingOnIsSound`). `RecommendationsHold` proves `RecommendationsAreEarned` for any number of Tasks,
sessions and reviews on each side and any values of the metrics: at most one side is chosen (`OneSideIsChosen`); the reasons against a side are empty but for the gate exactly if
its Tasks' sessions are its own, known and of distinct activations (`ReasonsAttribute`); each metric is a number or unknown
(`MetricsAreMeasured`), so that no worse in each and not no better is to dominate (`OutdoingIsDominating`). Assumed of the evidence: its types, what is not observed is no number and no
name, and a review that failed observed neither commit nor verdict.

`QualityGate_proofs.tla` proves, for any number of executions, candidates and acceptance checks, `VerdictsAreOfTheirCommit`. Paths are
shared by executions, but the path carries the commit: whoever adds or removes a checkout there, it holds its own commit or nothing
(`SoundPaths`); and each call has seen its own commit before it goes on to the acceptance checks, and has a passed check before it
reviews (`SoundCall`).

`Campaign_proofs.tla` proves, for any number of Campaigns, Outcomes and versions, any finite set of proposals, any plan and any answers of
the models, all six safety properties of `campaign_model` and `campaign_plan`. `DurableInv` is about the tables alone: of a Campaign's proposals (`RowsSound`)
a Task belongs to a released row and runs on its base, a superseded row was never released and has its replacement, what a released proposal depends on
is delivered, and it starts from a merge of one of these; and an accepted Campaign is `Proven`. Each
transaction keeps it and takes nothing back (`Advance`: a base, a Task, a final status; for a Campaign no longer open its assessments
and which rows stand). The rest of `IInv` is what the callers have read: the rows the coordination is to admit are
released (`CoordinationInv`), and since a base stays, they still are when it gets to them: this is why no superseded row gets a Task;
the model work asks about published Campaigns and owns the one it invokes a model for (`WorkInv`); executions are of Tasks
(`ExecutionsInv`); a handler of an abandonment has a final Campaign and blocks Tasks that have not ended (`HandlersInv`); after its
abort nothing that runs for the Campaign is left unaborted, and after its wait nothing is left (`QuietInv`). `LateAnswersChangeNothing`
and `BasesNeverMove` follow from `Advance`. Assumed: the plan's functions have their domains and
there are finitely many proposals (one Goal contract's), null is no value; nothing of how dependencies are ordered.

`Activation_proofs.tla` proves what one writer activation relies on. `FrozenIsOwnWork`, for any number of activations and commits: every worktree
holds the base and its own activation's work only (`OwnTree`), through removals and re-creations, and each step of `freeze` knows what
the earlier ones established (`SoundWriter`). `ReportIsArchived`, for any number of sessions and any retention: one that reports has its file as its
record is, since a pass of retention leaves unsettled sessions' files alone and the record does not change after it was stored (`SoundCall`).
`AppResultIsWhole` and `OpenCodeResultIsTerminal`, for streams of any length and any capacity of the queue: the client's text and usage together with what is left in
its queue make what the provider has said (`MissesNothing`, `LeadsTo`, by a witness that follows the queue), and an end is taken for the end only
when it was in the queue after everything else.

`Reads_proofs.tla` proves what reading clients and gates conclude while what they read grows. `ListenersSeeNoGap` and
`ReadersSeeTheStatusThrough`: what a listener got and what is queued for it is in order and without gap but for events
whose dispatch failed (`NoGap`). `PagesListEachTaskOnce`: the pages so far hold, in order, every Task within the cursor's bound up to the
cursor (`PagesInv`), for Tasks admitted at any place between two pages. `NoHintIsForgotten`: a Task with an unheard hint has a signal in the queue that is about it (`HermesInv`), for any
finite number of Tasks: a hint is dropped only while a reconciliation waits in the queue, and what is taken from it leaves the reconciliation there or
is it. `ReviewGateIsExact`, whichever lookups answer, and `PipelineGateIsExact`: ids and times grow in the order of creation (`GatesInv`), so the
latest per reviewer and name, which the folds pick, is the last one created, in any listing order. The model's recursive functions (a page, a queue of all Tasks) have
lemmas about what they return, which rest on `Repetition`: a function that repeats a step exists (from
`LeastNumber`, a least counterexample, since induction theorems cannot be instantiated).

Only model-checked: liveness (`Settles`, `EveryApprovalIsDelivered`, `CampaignsSettle`), which is out of the prover's reach, and the three disagreements with a run,
which are counterexamples.

## Limits

What the models reach and no property excludes; each is in the code, at the line given:

- Delivery Run. A check with unavailable evidence and the wait for it are two transactions: after a crash between them the Task gets
  another writer (`delivery-run.ts:263`), although the documents recheck without one. When preparing a writer fails, the blocker
  recorded is the execution's own stale revision (`coding-activation.ts:284`). A contract submitted a second time
  while an execution of it is being replaced can leave the Task
  with nobody attending it: an aborted execution's review attempt is returned unclaimed to the new one, which ends, and is
  released afterwards; or the block for an unusable policy loses its compare-and-set to the aborted execution's last
  record (`runtime.ts:655`). TLC shows both when `NoTaskIsStranded` is checked with `Resubmitted = {t1}`; its theorem supposes `Resubmitted = {}`. `quarantinePriorWriters` may throw (`StartCheck`); a store that refuses a
  progress event does not: `emitObservation` before, during and after a review (`delivery-run.ts:353-431`) can throw in the code, and when it does while
  the server closes, the attempt's reservation is not given back. `TakeOverReview` makes one step of a takeover that finds the budget
  exhausted and of the block that answers it. `FireTimer` supposes that the operation whose wait it attends is no longer registered (`server.ts:363` would
  drop the launch otherwise); `Settle` is the step that unregisters it and arms the timer.
- Forge Delivery. A token exchange that fails while a merge is unresolved is taken for a lack of authority and blocks the Task with its
  merge made (`forge-policy.ts:227`; DESIGN.md:353 has unresolved effects wait, and nothing throws `ForgeDeliveryReconciliationError`).
  A comment or a pull request whose creation takes effect after it was retried leads to a
  quarantine or a block, and a gate may close between its read and the merge. A comment whose creation GitHub answers with another author's identity
  (`forge-delivery.ts:536-543`) would be a quarantine too: the App's comments are its own here. Other people change a pull request's head, state and merge, not
  its base branch, and they do not edit the App's comment.
- Campaigns. Abandoning one Campaign aborts the shared model work; what was left to assess for another is dropped if no model run had
  finished, until something else asks for work. An abandonment between the coordination's read of a row and its record
  leaves a Task admitted for an abandoned Campaign until it is blocked at the next restart (AGENT_QUICKSTART.md:377, DESIGN.md:159). A dependent's base is
  the merge of the last of its dependencies in its Repository, not of all of them (`campaign.ts:655-698`; DESIGN.md:391), so `DependentsWaitForDelivery` claims the base
  for one such dependency only.
  A model's answer and the transaction that records it and its model run are one step (`AssessorAnswers`, `PlannerAnswers`), and an assessor's recoverable
  failure is an inconclusive answer; the reconciliation of a coordination and its selection of Campaigns are one (`StartCoordination`), and
  so are the commit of a retry and its launch (`CommitRetry`).
- Candidate Workspace. A session may check out its base's parent, to show that `freeze` refuses what does not continue the base; other commits it could
  check out are not modelled.
- Sessions. Retention can exceed its limit by one archive when two sessions end together; an archive truncated before its end may be called complete
  (DESIGN.md:275). An OpenCode turn that asks for a permission may still complete (DESIGN.md:291).
- Quality Gate. A checkout removed under a command makes its shell fail to start (`ENOENT`), which is blamed on the shell; an acceptance check may
  run, and even pass, in a checkout that is gone. A candidate's commit is on no branch once its worktree is removed
  (`candidate-workspace.ts:114`), so only Git's grace period keeps it from being collected.
- Observation. An event whose lookup fails is lost to its listeners (`server.ts:282-300`), which `ListenersSeeNoGap` excepts. `taskEvidence` may show a
  final status newer than its events. The bridge's reconciliation gives no hint of a new revision of a Task that was waiting
  already; a first subscription, and one after an outage that a reconciliation without a subscription ended, is not reconciled again, so what changes
  before it opens is seen at its next event only. A hint whose delivery fails for good is not sent again.
- Evaluations. A reviewer comparison may be inconclusive with no reason given.

## Not modelled

- Of the server: failures of the restart loop (a row that cannot be decoded, more active Tasks than capacity), and the HTTP API, whose handlers' effects are
  modelled with the component they call.
- Of the authority: recovery and progress observations (they append events and change no row), the identity checks of a registration.
- Of Campaigns: structured acceptance criteria, the contract's parsing and the wording of drafts; their evidence and capture, which are
  projections that nothing reads back.
- In ForgeDelivery: GitHub's reopening of a closed pull request, more than a hundred pull requests on one branch (the list is one
  page), the wait between attempts, the readiness report and the read-only MCP server.
- Of the sessions: profiles, sandboxes, role prompts and the parsing of usage reports; of the evaluations: reading plans, and the reviewer evaluation's loop,
  which touches no server.
- Runtime policy, private state, CLI commands: parsing, file permissions and formatting. Recorded evaluations, pilots and scripts are no
  part of the running system.

## Plan

Done: Tasks, Delivery, Campaigns, and the components used through their results; proofs of every safety property the runs check.
Next:

1. An abstract specification of a Campaign (a proposal is released once, after what it depends on; accepted, abandoned or waiting for a decision) that
   CampaignServer implements, checked and proved.
2. Attendance Task by Task: `NoTaskIsStranded` for every Task whose own contract is not submitted again.
3. A specification of the follow and page protocols as one reader of a growing history, which TaskObservation and TaskPages implement.
