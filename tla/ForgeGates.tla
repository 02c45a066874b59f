---- MODULE ForgeGates ----
(***************************************************************************)
(* The two merge gates of Forge Delivery, over evidence that grows on      *)
(* GitHub: externalReviewBlocksMerge (external-review.ts) folds one page   *)
(* of native reviews, readGithubPipelineEvidence (github-read.ts) one page *)
(* of check runs and one of commit statuses.                               *)
(***************************************************************************)
EXTENDS Naturals, Sequences, FiniteSets, SequencesExt

CONSTANTS
    Reviewers,      \* users and Apps
    Trusted,        \* those of the host's policy
    Bots,           \* Apps that review as a Bot, whose identity takes a lookup
    HeadSha, Heads, \* the approved head, and the commits reviews may be of
    Names,          \* allowlisted check runs
    Contexts,       \* allowlisted status contexts
    Apps,           \* sources of check runs
    GatePage,       \* MAX_ITEMS
    MaxGateItems    \* bound: reviews, check runs and statuses on GitHub

ASSUME TrustAssumption == Trusted \subseteq Reviewers /\ Bots \subseteq Reviewers /\ HeadSha \in Heads
ASSUME PageAssumption == GatePage \in Nat \ {0} /\ MaxGateItems \in Nat

VARIABLES
    reviews,    \* native reviews, in the order GitHub lists them
    clock,      \* the second, which is all a review's time says
    checkRuns,  \* check runs of the head
    statuses    \* commit statuses of the head

gatesVars == <<reviews, clock, checkRuns, statuses>>

Decisive == {"APPROVED", "CHANGES_REQUESTED"}

(***************************************************************************)
(* externalReviewBlocksMerge                                               *)
(***************************************************************************)
ReviewPage == {i \in DOMAIN reviews : i <= GatePage}
ReviewsTruncated == Len(reviews) > GatePage

\* createReviewIdentityResolver: who reviewed is known of those that are no Bots and of the
\* Bots whose one lookup of this reading answered.
VerifiedReviewers(answering) == Reviewers \ (Bots \ answering)

\* Reviews of the head by trusted identities that decide anything, by their index.
Counted(r) ==
    {i \in ReviewPage :
        reviews[i].by = r /\ reviews[i].commit = HeadSha /\ reviews[i].state \in Decisive}

\* Fault: listing order decides.
IsLaterReview_ByIndex(i, j) == i > j

\* isLaterReview: the submission time, and the listing order within a second.
IsLaterReview(i, j) ==
    IF reviews[i].at # reviews[j].at THEN reviews[i].at > reviews[j].at ELSE i > j

\* What the fold over the page keeps of an identity.
LatestReview(r) ==
    reviews[CHOOSE i \in Counted(r) : \A j \in Counted(r) \ {i} : IsLaterReview(i, j)]

\* No blocker: every latest decision approves, and there is one.  What a Bot decided whose
\* lookup failed is passed over.
ReviewGate(answering) ==
    LET heard == {r \in Trusted \cap VerifiedReviewers(answering) : Counted(r) # {}}
        decisive == {LatestReview(r) : r \in heard}
    IN
    /\ ~ReviewsTruncated
    /\ \A v \in decisive : v.state # "CHANGES_REQUESTED"
    /\ \E v \in decisive : v.state = "APPROVED"

(***************************************************************************)
(* readGithubPipelineEvidence                                              *)
(***************************************************************************)
PipelineTruncated == Cardinality(checkRuns) > GatePage \/ Cardinality(statuses) > GatePage

\* Fault: the oldest entry.
LatestBy_Oldest(items) == CHOOSE i \in items : \A j \in items : i.id <= j.id

\* latestBy id.
LatestBy(items) == CHOOSE i \in items : \A j \in items : j.id <= i.id

Succeeded(items) == items # {} /\ LatestBy(items).result = "success"

RunPages == {p \in SUBSET checkRuns :
    Cardinality(p) = IF Cardinality(checkRuns) > GatePage THEN GatePage ELSE Cardinality(checkRuns)}
StatusPages == {p \in SUBSET statuses :
    Cardinality(p) = IF Cardinality(statuses) > GatePage THEN GatePage ELSE Cardinality(statuses)}

\* ready, for a page of each: every selected entry succeeded, last and from one
\* source, and nothing was left out.
PipelineGate(runPage, statusPage) ==
    /\ ~PipelineTruncated
    /\ \A name \in Names :
          LET named == {c \in runPage : c.name = name} IN
          Succeeded(named) /\ Cardinality({c.app : c \in named}) <= 1
    /\ \A context \in Contexts : Succeeded({s \in statusPage : s.context = context})

(***************************************************************************)
(* GitHub                                                                  *)
(***************************************************************************)
\* A review is listed after those of its second, and anywhere among earlier ones.
Submit(r, state, commit) ==
    LET review == [by |-> r, state |-> state, commit |-> commit, at |-> clock,
                   nth |-> Len(reviews) + 1] IN
    /\ Len(reviews) < MaxGateItems
    /\ \E i \in 1..Len(reviews) + 1 :
          /\ \A j \in i..Len(reviews) : reviews[j].at < clock
          /\ reviews' = InsertAt(reviews, i, review)
    /\ UNCHANGED <<clock, checkRuns, statuses>>

Dismiss(i) ==
    /\ reviews[i].state \in Decisive
    /\ reviews' = [reviews EXCEPT ![i].state = "DISMISSED"]
    /\ UNCHANGED <<clock, checkRuns, statuses>>

\* Only between reviews, and no further than there are reviews.
Tick ==
    /\ \E i \in DOMAIN reviews : reviews[i].at = clock
    /\ clock' = clock + 1
    /\ UNCHANGED <<reviews, checkRuns, statuses>>

NextId == Cardinality(checkRuns) + Cardinality(statuses) + 1

StartCheck(name, app) ==
    /\ NextId <= MaxGateItems
    /\ checkRuns' = checkRuns \cup {[name |-> name, id |-> NextId, app |-> app, result |-> "pending"]}
    /\ UNCHANGED <<reviews, clock, statuses>>

CompleteCheck(run, result) ==
    /\ run.result = "pending"
    /\ checkRuns' = (checkRuns \ {run}) \cup {[run EXCEPT !.result = result]}
    /\ UNCHANGED <<reviews, clock, statuses>>

SetStatus(context, result) ==
    /\ NextId <= MaxGateItems
    /\ statuses' = statuses \cup {[context |-> context, id |-> NextId, result |-> result]}
    /\ UNCHANGED <<reviews, clock, checkRuns>>

GatesInit ==
    /\ reviews = <<>> /\ clock = 1 /\ checkRuns = {} /\ statuses = {}

ReviewStep ==
    \/ \E r \in Reviewers, state \in Decisive \cup {"COMMENTED"}, commit \in Heads :
          Submit(r, state, commit)
    \/ \E i \in DOMAIN reviews : Dismiss(i)
    \/ Tick

PipelineStep ==
    \/ \E name \in Names, app \in Apps : StartCheck(name, app)
    \/ \E run \in checkRuns, result \in {"success", "failure"} : CompleteCheck(run, result)
    \/ \E context \in Contexts, result \in {"pending", "success", "failure"} :
          SetStatus(context, result)

\* The two histories do not interact: one at a time.
GatesNext ==
    \/ checkRuns = {} /\ statuses = {} /\ ReviewStep
    \/ reviews = <<>> /\ PipelineStep

GatesSpec == GatesInit /\ [][GatesNext]_gatesVars

(***************************************************************************)
(* Properties                                                              *)
(***************************************************************************)
\* What reviewer r has said last of the head, in the whole history and whatever
\* the order it is listed in.
LastDecision(r) ==
    LET said == {v \in ToSet(reviews) :
                    v.by = r /\ v.commit = HeadSha /\ v.state \in Decisive} IN
    IF said = {} THEN "NONE" ELSE (CHOOSE v \in said : \A w \in said : w.nth <= v.nth).state

\* Whichever lookups answer, the review gate opens exactly when, of the trusted reviewers that
\* could be identified, the last decision of some on the head approves and that of none asks
\* for changes, and never on the strength of a page that leaves reviews out (DESIGN.md:327).
ReviewGateIsExact ==
    \A answering \in SUBSET Bots :
        LET known == {r \in Trusted : r \in Bots => r \in answering} IN
        ReviewGate(answering) <=>
            /\ \E r \in known : LastDecision(r) = "APPROVED"
            /\ \A r \in known : LastDecision(r) # "CHANGES_REQUESTED"
            /\ Len(reviews) <= GatePage

\* docs/DESIGN.md:327: the live-PR read blocks a trusted current-head CHANGES_REQUESTED review.
TrustedBlocksHold ==
    \A answering \in SUBSET Bots :
        ReviewGate(answering) => \A r \in Trusted : LastDecision(r) # "CHANGES_REQUESTED"

\* Whatever page GitHub answers with, the pipeline gate opens only when every
\* selected check's and status's last result is a success, nobody else reports a
\* check of that name, and it opens whenever that is so and all of it was seen.
PipelineGateIsExact ==
    \A p \in RunPages, q \in StatusPages :
        PipelineGate(p, q) <=>
            /\ Cardinality(checkRuns) <= GatePage /\ Cardinality(statuses) <= GatePage
            /\ \A name \in Names :
                  \E c \in checkRuns :
                     /\ c.name = name /\ c.result = "success"
                     /\ \A d \in checkRuns : d.name = name => d.app = c.app /\ d.id <= c.id
            /\ \A context \in Contexts :
                  \E s \in statuses :
                     /\ s.context = context /\ s.result = "success"
                     /\ \A u \in statuses : u.context = context => u.id <= s.id
====
