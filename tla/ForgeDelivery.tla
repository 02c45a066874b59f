---- MODULE ForgeDelivery ----
(***************************************************************************)
(* Forge Delivery (forge-delivery.ts): how the approved Candidate of one   *)
(* reviewed Task becomes a branch, a pull request, an approval attestation *)
(* and, with authority, a merge on GitHub.                                 *)
(*                                                                         *)
(* deliver() repeats reconcile(), which probes GitHub before every write;  *)
(* each step below is one request of it, answered and decided upon.  A     *)
(* request may fail, its effect may happen although the answer is lost, or *)
(* happen later still; people push, open, close, merge and comment in      *)
(* between; the process may crash or be cancelled, and the deadline pass.  *)
(* Delivery Run then records the outcome, resumes waits and starts over.   *)
(***************************************************************************)
EXTENDS Naturals, FiniteSets

CONSTANTS
    Numbers,        \* bound: pull request numbers GitHub may hand out
    Approved,       \* SHA of the approved Candidate
    Other,          \* any other SHA
    Null,
    Policies,       \* the policies a run starts from
    Faults,         \* ways a request may fail
    LateKinds,      \* writes whose effect may follow their failure
    MaxFaults,      \* bound: failed requests and crashes
    MaxChanges,     \* bound: changes by other people
    Deadlined       \* whether the Task has a deadline

Gates == {"review", "pipeline", "platform"}
Policy == [merge : BOOLEAN, review : BOOLEAN, pipeline : BOOLEAN]

ASSUME NumbersAssumption == Numbers \subseteq Nat \ {0} /\ IsFiniteSet(Numbers)
ASSUME ShasAssumption == Approved # Other /\ Null \notin {Approved, Other} \cup Numbers
ASSUME PoliciesAssumption == Policies \subseteq Policy /\ Policies # {}
ASSUME FaultsAssumption == Faults \subseteq {"transient", "definite", "authentication"}
ASSUME LateAssumption == LateKinds \subseteq {"push", "create", "comment", "merge"}
ASSUME BoundsAssumption ==
    MaxFaults \in Nat /\ MaxChanges \in Nat /\ Deadlined \in BOOLEAN

VARIABLES
    policy,     \* contract.authorization.merge and the host's gates
    branch,     \* GitHub: head of the delivery branch, or Null
    prs,        \* GitHub: [Numbers -> PullRequest or Null] of that branch
    own,        \* GitHub: [Numbers -> attestations the App has created]
    foreign,    \* GitHub: pull requests with someone else's marked comment
    greens,     \* GitHub: gates that are open for the approved SHA
    late,       \* requests GitHub has yet to act upon
    local,      \* pull requests whose merge commit is in the local repository
    expired,    \* deadlineEpochMs has passed
    call,       \* the running deliver()
    task,       \* Task Authority's state of the Task
    report,     \* the DeliveryEffect it recorded
    faults, changes

hub == <<branch, prs, own, foreign, greens, late>>
durable == <<task, report>>
vars == <<policy, hub, local, expired, call, durable, faults, changes>>

PullRequest ==
    [state : {"open", "closed"}, head : {Approved, Other},
     merger : {Null, "app", "other"}]

Report == [pr : Numbers, merged : BOOLEAN]

\* Requests that change GitHub, and the stages they are sent from.
Requests ==
    {<<"push", 0>>, <<"create", 0>>} \cup ({"comment", "merge"} \X Numbers)

Stages ==
    {"idle", "authenticating", "reading", "listing", "pushing", "creating",
     "attesting", "commenting", "live", "reviews", "checks", "merging",
     "probing", "materializing", "sleeping", "returned"}

Writing == {"pushing", "creating", "commenting", "merging"}

Outcomes == {"delivered", "merged", "pending", "quarantined", "failed"}

ASSUME NullAssumption ==
    Null \notin PullRequest \cup Report \cup Outcomes \cup {"app", "other"}

Call ==
    [stage : Stages,
     head : {Null, Approved, Other},        \* observedHead
     pr : Numbers \cup {Null},
     then : {"deliver", "merge", "recover"},    \* what the attestation is for
     miss : {"quarantined", "transient", "definite"},   \* a failed probe's error
     outcome : Outcomes \cup {Null}]

IdleCall ==
    [stage |-> "idle", head |-> Null, pr |-> Null, then |-> "deliver",
     miss |-> "quarantined", outcome |-> Null]

TypeOK ==
    /\ policy \in Policies
    /\ branch \in {Null, Approved, Other}
    /\ prs \in [Numbers -> PullRequest \cup {Null}]
    /\ own \in [Numbers -> Nat]
    /\ foreign \subseteq Numbers /\ greens \subseteq Gates
    /\ late \subseteq Requests /\ local \subseteq Numbers
    /\ expired \in BOOLEAN /\ call \in Call
    /\ task \in {"reviewed", "waiting", "blocked", "delivered"}
    /\ report \in Report \cup {Null}
    /\ faults \in 0..MaxFaults /\ changes \in 0..MaxChanges

(***************************************************************************)
(* GitHub                                                                  *)
(***************************************************************************)
Exists(n) == prs[n] # Null
Open(n) == Exists(n) /\ prs[n].state = "open"
Fresh == {n \in Numbers : ~Exists(n) /\ \A m \in Numbers : m < n => Exists(m)}

\* Fault: pulls.merge without the SHA it is meant for.
Accepts_AnyHead(r) ==
    \/ r[1] = "push" /\ branch \in {Null, Approved}
    \/ r[1] = "create" /\ branch # Null /\ Fresh # {} /\ ~\E n \in Numbers : Open(n)
    \/ r[1] = "comment" /\ Exists(r[2])
    \/ r[1] = "merge" /\ Open(r[2]) /\ "platform" \in greens

\* A push under its empty lease finds no branch, or nothing to do; one open pull
\* request per branch; a merge needs the SHA it names and the platform's consent.
Accepts(r) ==
    \/ r[1] = "push" /\ branch \in {Null, Approved}
    \/ r[1] = "create" /\ branch # Null /\ Fresh # {} /\ ~\E n \in Numbers : Open(n)
    \/ r[1] = "comment" /\ Exists(r[2])
    \/ /\ r[1] = "merge" /\ Open(r[2]) /\ prs[r[2]].head = Approved
       /\ "platform" \in greens

\* Open pull requests follow their branch.
Follow(sha) ==
    [n \in Numbers |-> IF Open(n) THEN [prs[n] EXCEPT !.head = sha] ELSE prs[n]]

Opened(n) == [prs EXCEPT ![n] = [state |-> "open", head |-> branch, merger |-> Null]]
Closed(n, merger) ==
    [prs EXCEPT ![n] = [@ EXCEPT !.state = "closed", !.merger = merger]]

Effect(r) ==
    /\ \/ r[1] = "push" /\ branch' = Approved /\ UNCHANGED <<prs, own>>
       \/ r[1] = "create" /\ (\E n \in Fresh : prs' = Opened(n)) /\ UNCHANGED <<branch, own>>
       \/ r[1] = "comment" /\ own' = [own EXCEPT ![r[2]] = @ + 1] /\ UNCHANGED <<branch, prs>>
       \/ r[1] = "merge" /\ prs' = Closed(r[2], "app") /\ UNCHANGED <<branch, own>>
    /\ UNCHANGED <<foreign, greens>>

\* What may have become of a request whose answer never came.
Lost(r) ==
    \/ UNCHANGED hub
    \/ Accepts(r) /\ Effect(r) /\ UNCHANGED late
    \/ /\ r[1] \in LateKinds /\ late' = late \cup {r}
       /\ UNCHANGED <<branch, prs, own, foreign, greens>>

\* It reaches GitHub after all.
Arrive(r) ==
    /\ r \in late /\ late' = late \ {r}
    /\ IF Accepts(r) THEN Effect(r) ELSE UNCHANGED <<branch, prs, own, foreign, greens>>
    /\ UNCHANGED <<policy, local, expired, call, durable, faults, changes>>

(***************************************************************************)
(* deliver() and reconcile()                                               *)
(***************************************************************************)
At(stage) == call.stage = stage
Goto(stage) == call' = [call EXCEPT !.stage = stage]
Return(outcome) == call' = [call EXCEPT !.stage = "returned", !.outcome = outcome]
Quarantine == Return("quarantined")
Probe(n, miss) == call' = [call EXCEPT !.stage = "probing", !.pr = n, !.miss = miss]
Attest(n, then) == call' = [call EXCEPT !.stage = "attesting", !.pr = n, !.then = then]

\* Fault: deliver() gives up on an error without a definite status.
Throw_NoRetry(fault) == Return("failed")

\* What deliver()'s catch does: transport errors and 408, 409, 429, 5xx are tried
\* again, any other status and an authentication error end the delivery.
Throw(fault) == IF fault = "transient" THEN Goto("sleeping") ELSE Return("failed")

\* mergedEffect.
\* Fault: whatever head was merged.
MergedEffect_AnyHead(n) == Exists(n) /\ prs[n].merger # Null

MergedEffect(n) == Exists(n) /\ prs[n].merger # Null /\ prs[n].head = Approved

\* Answered in time, and with what the client only reads.
Answered == ~expired
Reads == UNCHANGED <<policy, hub, local, expired, durable, faults, changes>>

\* Delivery Run calls deliver() for a reviewed Task.
Start ==
    /\ task = "reviewed" /\ At("idle")
    /\ call' = [IdleCall EXCEPT !.stage = "authenticating"]
    /\ Reads

\* createGithubApiClient, at the head of every reconcile(); no deadline applies.
Authenticate == At("authenticating") /\ Goto("reading") /\ Reads

\* git.getRef: the delivery branch, or 404.
GetRef ==
    /\ At("reading") /\ Answered
    /\ call' = [call EXCEPT !.stage = "listing", !.head = branch]
    /\ Reads

Matching == {n \in Numbers : Exists(n) /\ prs[n].head = Approved}

\* GitHub lists the newest pull request first.
Existing ==
    IF Matching = {} THEN Null
    ELSE CHOOSE n \in Matching : \A m \in Matching : m <= n

Ambiguous == Cardinality(Matching) > 1

\* A pull request to go on with, or none at all.
Usable == IF Existing = Null THEN \A n \in Numbers : ~Exists(n) ELSE Open(Existing)

\* pulls.list and the decision it leads to, with the branch head read before it.
ListPulls ==
    /\ At("listing") /\ Answered
    /\ \/ Ambiguous /\ Quarantine
       \/ /\ ~Ambiguous /\ ~Usable
          /\ IF Existing # Null /\ MergedEffect(Existing) /\ policy.merge
             THEN Probe(Existing, "quarantined") ELSE Quarantine
       \/ ~Ambiguous /\ Usable /\ call.head = Other /\ Quarantine
       \/ /\ ~Ambiguous /\ Usable /\ call.head # Other
          /\ call' = [call EXCEPT !.pr = Existing, !.then = "deliver",
                        !.stage = IF call.head = Null THEN "pushing"
                                  ELSE IF Existing = Null THEN "creating" ELSE "attesting"]
    /\ Reads

\* Someone's marked comment is none of the App's own.
\* Fault: the comments are not read before one is created.
Marked_Unread(n) == 0

Marked(n) == own[n] + IF n \in foreign THEN 1 ELSE 0

\* What an attestation was for: reconcile()'s two and probeMerged's.
AfterAttestation ==
    \/ call.then = "deliver" /\ policy.merge /\ Goto("live")
    \/ call.then = "deliver" /\ ~policy.merge /\ Return("delivered")
    \/ call.then = "merge" /\ Goto("reviews")
    \/ call.then = "recover" /\ Goto("materializing")

\* ensureAttestation: exactly one marked comment, and that by the App.
ListComments ==
    /\ At("attesting") /\ Answered
    /\ \/ Marked(call.pr) > 1 /\ Quarantine
       \/ Marked(call.pr) = 1 /\ call.pr \in foreign /\ Quarantine
       \/ Marked(call.pr) = 1 /\ call.pr \notin foreign /\ AfterAttestation
       \/ Marked(call.pr) = 0 /\ Goto("commenting")
    /\ Reads

\* pulls.get of the pull request about to be merged.
GetLivePull ==
    /\ At("live") /\ Answered
    /\ \/ MergedEffect(call.pr) /\ Probe(call.pr, "quarantined")
       \/ /\ ~MergedEffect(call.pr)
          /\ IF Open(call.pr) /\ prs[call.pr].head = Approved
             THEN Attest(call.pr, "merge") ELSE Quarantine
    /\ Reads

\* enforceExternalReviewGate.
ReviewGate ==
    /\ At("reviews")
    /\ policy.review => Answered
    /\ IF policy.review => "review" \in greens THEN Goto("checks") ELSE Return("pending")
    /\ Reads

\* enforcePipelineGate: evidence is for the live head only, and any failure to
\* read it, the deadline included, is a wait.
PipelineGate ==
    /\ At("checks")
    /\ IF policy.pipeline =>
            Answered /\ prs[call.pr].head = Approved /\ "pipeline" \in greens
       THEN Goto("merging") ELSE Return("pending")
    /\ Reads

\* probeMerged.
ProbeMerged ==
    /\ At("probing") /\ Answered
    /\ \/ MergedEffect(call.pr) /\ Attest(call.pr, "recover")
       \/ ~MergedEffect(call.pr) /\ call.miss = "quarantined" /\ Quarantine
       \/ ~MergedEffect(call.pr) /\ call.miss # "quarantined" /\ Throw(call.miss)
    /\ Reads

\* materializeMergeCommit.
Materialize ==
    /\ At("materializing") /\ Answered
    /\ local' = local \cup {call.pr}
    /\ Return("merged")
    /\ UNCHANGED <<policy, hub, expired, durable, faults, changes>>

\* Every retry starts over with a new client.
Sleep == At("sleeping") /\ Answered /\ Goto("authenticating") /\ Reads

(***************************************************************************)
(* Writes                                                                  *)
(***************************************************************************)
Request ==
    CASE At("pushing") -> <<"push", 0>>
      [] At("creating") -> <<"create", 0>>
      [] At("commenting") -> <<"comment", call.pr>>
      [] At("merging") -> <<"merge", call.pr>>

\* What reconcile() does with GitHub's answer.  A pull request created from a
\* branch that has moved, and a merge without its commit, are not taken on trust.
Accepted ==
    \/ At("pushing") /\ call.pr = Null /\ Goto("creating")
    \/ At("pushing") /\ call.pr # Null /\ Attest(call.pr, "deliver")
    \/ At("creating") /\ branch = Approved /\ \E n \in Fresh : Attest(n, "deliver")
    \/ At("creating") /\ branch # Approved /\ Quarantine
    \/ At("commenting") /\ AfterAttestation
    \/ At("merging") /\ (Goto("materializing") \/ Probe(call.pr, "quarantined"))

\* GitHub refuses: the push's lease, a second open pull request (422), the
\* merge (405, 409, 422, or merged: false).
Refused ==
    \/ At("pushing") /\ Throw("transient")
    \/ (At("creating") \/ At("commenting")) /\ Throw("definite")
    \/ At("merging") /\ (Quarantine \/ Probe(call.pr, "quarantined"))

\* The request fails: a merge is probed for, and its error thrown if there is none.
Failed(fault) == IF At("merging") THEN Probe(call.pr, fault) ELSE Throw(fault)

Write ==
    /\ call.stage \in Writing /\ Answered
    /\ \/ Accepts(Request) /\ Effect(Request) /\ Accepted /\ UNCHANGED late
       \/ ~Accepts(Request) /\ Refused /\ UNCHANGED hub
    /\ UNCHANGED <<policy, local, expired, durable, faults, changes>>

(***************************************************************************)
(* Failures, the deadline, crashes                                         *)
(***************************************************************************)
Reading ==
    {"authenticating", "reading", "listing", "attesting", "live", "reviews", "checks",
     "probing", "materializing"}

\* Only a configured gate asks GitHub.
Asks ==
    /\ At("reviews") => policy.review
    /\ At("checks") => policy.pipeline

\* A read fails.  Without a client there is no retry; without pipeline evidence
\* there is a wait.
ReadFails(fault) ==
    /\ call.stage \in Reading /\ Asks /\ Answered
    /\ fault = "authentication" => At("authenticating")
    /\ IF At("authenticating") THEN fault = "authentication" /\ Return("failed")
       ELSE IF At("checks") THEN Return("pending")
       ELSE Throw(IF At("materializing") THEN "transient" ELSE fault)
    /\ UNCHANGED hub

\* A write fails for the client.  A definite error is GitHub's own, so that
\* nothing happened; git reports none.
WriteFails(fault) ==
    /\ call.stage \in Writing /\ Answered
    /\ \/ fault = "transient" /\ Lost(Request)
       \/ fault = "definite" /\ ~At("pushing") /\ UNCHANGED hub
    /\ Failed(fault)

RequestFails ==
    /\ faults < MaxFaults /\ faults' = faults + 1
    /\ \E fault \in Faults : ReadFails(fault) \/ WriteFails(fault)
    /\ UNCHANGED <<policy, local, expired, durable, changes>>

PassDeadline ==
    /\ Deadlined /\ ~expired /\ expired' = TRUE
    /\ UNCHANGED <<policy, hub, local, call, durable, faults, changes>>

\* remainingUntil throws ElapsedBudgetError at the next request, which deliver()'s
\* own wait throws again; what is already sent is left to itself.
RunOut ==
    /\ expired /\ call.stage \notin {"idle", "authenticating", "returned"} /\ Asks
    /\ IF At("checks") THEN Return("pending") ELSE Return("failed")
    /\ IF call.stage \in Writing THEN Lost(Request) ELSE UNCHANGED hub
    /\ UNCHANGED <<policy, local, expired, durable, faults, changes>>

\* The process dies or the execution is cancelled, with its request on its way.
Crash ==
    /\ ~At("idle") /\ faults < MaxFaults /\ faults' = faults + 1
    /\ call' = IdleCall
    /\ IF call.stage \in Writing THEN Lost(Request) ELSE UNCHANGED hub
    /\ UNCHANGED <<policy, local, expired, durable, changes>>

(***************************************************************************)
(* Delivery Run                                                            *)
(***************************************************************************)
\* recordDelivery, recordWaiting and blockTask, after deliver() has returned.
RecordOutcome ==
    /\ At("returned") /\ call' = IdleCall
    /\ \/ /\ call.outcome \in {"delivered", "merged"} /\ task' = "delivered"
          /\ report' = [pr |-> call.pr, merged |-> call.outcome = "merged"]
       \/ call.outcome = "pending" /\ task' = "waiting" /\ UNCHANGED report
       \/ call.outcome \in {"quarantined", "failed"} /\ task' = "blocked" /\ UNCHANGED report
    /\ UNCHANGED <<policy, hub, local, expired, faults, changes>>

\* The operator's retry, or the server's for pipeline evidence.
Resume ==
    /\ task = "waiting" /\ ~expired /\ task' = "reviewed"
    /\ UNCHANGED <<policy, hub, local, expired, call, report, faults, changes>>

(***************************************************************************)
(* Other people, and GitHub's own gates                                    *)
(***************************************************************************)
OtherPeople ==
    /\ changes < MaxChanges /\ changes' = changes + 1
    /\ \/ \E sha \in {Approved, Other} :
             branch' = sha /\ prs' = Follow(sha) /\ UNCHANGED <<foreign, greens>>
       \/ /\ branch # Null /\ branch' = Null
          /\ prs' = [n \in Numbers |-> IF Open(n) THEN [prs[n] EXCEPT !.state = "closed"]
                                       ELSE prs[n]]
          /\ UNCHANGED <<foreign, greens>>
       \/ /\ Accepts(<<"create", 0>>) /\ \E n \in Fresh : prs' = Opened(n)
          /\ UNCHANGED <<branch, foreign, greens>>
       \/ \E n \in Numbers, merger \in {Null, "other"} :
             Open(n) /\ prs' = Closed(n, merger) /\ UNCHANGED <<branch, foreign, greens>>
       \/ \E n \in Numbers :
             Exists(n) /\ foreign' = foreign \cup {n} /\ UNCHANGED <<branch, prs, greens>>
       \/ \E g \in greens : greens' = greens \ {g} /\ UNCHANGED <<branch, prs, foreign>>
    /\ UNCHANGED <<policy, own, late, local, expired, call, durable, faults>>

\* A trusted approval or a finished pipeline run.
TurnGreen(g) ==
    /\ g \notin greens /\ greens' = greens \cup {g}
    /\ UNCHANGED <<policy, branch, prs, own, foreign, late, local, expired, call,
                   durable, faults, changes>>

(***************************************************************************)
(* Specification                                                           *)
(***************************************************************************)
Init ==
    /\ policy \in Policies
    /\ branch = Null /\ prs = [n \in Numbers |-> Null]
    /\ own = [n \in Numbers |-> 0] /\ foreign = {}
    /\ greens \in {g \in SUBSET Gates : "platform" \in g}
    /\ late = {} /\ local = {} /\ expired = FALSE
    /\ call = IdleCall /\ task = "reviewed" /\ report = Null
    /\ faults = 0 /\ changes = 0

Deliver ==
    \/ Start \/ Authenticate \/ GetRef \/ ListPulls \/ ListComments \/ GetLivePull
    \/ ReviewGate \/ PipelineGate \/ ProbeMerged \/ Materialize \/ Sleep \/ Write \/ RunOut
    \/ RecordOutcome

Next ==
    \/ Deliver \/ Resume \/ RequestFails \/ PassDeadline \/ Crash \/ OtherPeople
    \/ \E r \in late : Arrive(r)
    \/ \E g \in Gates : TurnGreen(g)

Spec == Init /\ [][Next]_vars

\* A running deliver() goes on, Delivery Run calls it for a reviewed Task, and a
\* waiting Task is taken up again (the server does so for pipeline evidence, an
\* operator for an external review).
FairSpec == Spec /\ WF_vars(Deliver) /\ WF_vars(Resume)

(***************************************************************************)
(* Properties                                                              *)
(***************************************************************************)
\* Merged, by anyone, with the approved head.
Landed == {n \in Matching : prs[n].merger # Null}

\* A recorded merge is one GitHub made of the approved head, under the contract's
\* authority, attested by the App, and its commit is in the local repository; a
\* delivery without a merge is of an attested pull request of a contract without
\* that authority (DESIGN: an ambiguous merge is not recorded as success).
ReportedEffectIsReal ==
    report # Null =>
        /\ own[report.pr] > 0
        /\ report.merged = policy.merge
        /\ report.merged => report.pr \in Landed \cap local

Merged == {n \in Numbers : Exists(n) /\ prs[n].merger = "app"}

\* Crashes, lost answers and retries alone neither duplicate a pull request or an
\* attestation nor look like somebody else's work: while nobody interferes and no
\* request acts after it has failed, nothing is quarantined.
RetriesNeverConflict ==
    changes = 0 /\ LateKinds = {} =>
        /\ call.outcome # "quarantined"
        /\ \A n \in Numbers : own[n] <= 1
        /\ Cardinality({n \in Numbers : Exists(n)}) <= 1

\* Once the selected gates are green for good, an approved Candidate is delivered
\* in the end, through every transient failure and crash.
EveryApprovalIsDelivered ==
    (policy.review => <>("review" \in greens)) /\ (policy.pipeline => <>("pipeline" \in greens))
        => <>(task = "delivered")

\* What DeliveryEffects promises, of this state.
Effects == INSTANCE DeliveryEffects WITH
    authority <- policy.merge,
    attested <- {n \in Numbers : own[n] > 0},
    merged <- Merged,
    landed <- Landed,
    state <- IF task \in {"blocked", "delivered"} THEN task ELSE "pending",
    report <- report

\* Forge Delivery, its failures and everyone else on GitHub do no more than the
\* abstract effects: the App merges at most once, only an attested pull request
\* with the approved head, and the outcome is recorded once.
ImplementsEffects == Effects!Spec

====
