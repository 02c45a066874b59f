---- MODULE Activation_proofs ----
(***************************************************************************)
(* Theorems about what one writer activation relies on: the worktree its   *)
(* candidate is frozen in (CandidateWorkspace.tla), the archive its session*)
(* leaves (CodingSession.tla), and the two adapters that tell when a       *)
(* session is over and what it said (AppServerSession.tla,                 *)
(* OpenCodeSession.tla).  They hold for any number of activations, commits *)
(* and sessions, any capacity of the queue, any retention, and streams of  *)
(* any length.                                                             *)
(***************************************************************************)
EXTENDS CandidateWorkspace, CodingSession, AppServerSession, OpenCodeSession, SequenceTheorems, TLAPS

(***************************************************************************)
(* The worktrees of a Task.                                                *)
(***************************************************************************)
WriterSteps ==
    {"idle", "quarantining", "adding", "session", "quarantined", "frozen", "lost"} \cup Freezing
Commits == Seq(SUBSET Activations)
TreeType == [head : Commits, dirty : SUBSET Activations, there : BOOLEAN]
WriterType == [step : WriterSteps, todo : SUBSET Activations, candidate : Commits]

WorkspaceTypeOK ==
    /\ worktree \in [Activations -> TreeType]
    /\ writer \in [Activations -> WriterType]

\* Whatever is committed on top of the base is the activation's own.
OwnCommits(a, commits) == \A i \in 2..Len(commits) : commits[i] \subseteq {a}
OwnTree(a, tree) == OwnCommits(a, tree.head) /\ tree.dirty \subseteq {a}

\* What freeze has made sure of by each of its steps.
SoundWriter(a, w) ==
    /\ OwnCommits(a, w.candidate)
    /\ w.step = "verify" => w.candidate # Base
    /\ w.step = "frozen" => IsStrictPrefix(Base, w.candidate)

WorkspaceInv ==
    /\ WorkspaceTypeOK
    /\ \A a \in Activations : OwnTree(a, worktree[a]) /\ SoundWriter(a, writer[a])

\* No worktree, and a fresh one at the base, are an activation's own.
LEMMA SomeTrees ==
    /\ NoTree \in TreeType /\ \A a \in Activations : OwnTree(a, NoTree)
    /\ [head |-> Base, dirty |-> {}, there |-> TRUE] \in TreeType
    /\ \A a \in Activations : OwnTree(a, [head |-> Base, dirty |-> {}, there |-> TRUE])
BY DEF NoTree, TreeType, Commits, Base, OwnTree, OwnCommits

\* A commit of the activation's own work.
LEMMA OwnCommit ==
    ASSUME NEW a \in Activations, NEW tree \in TreeType, OwnTree(a, tree)
    PROVE  LET next == [tree EXCEPT !.head = Append(@, tree.dirty), !.dirty = {}]
           IN  next \in TreeType /\ OwnTree(a, next)
<1> DEFINE head == Append(tree.head, tree.dirty)
           next == [tree EXCEPT !.head = Append(@, tree.dirty), !.dirty = {}]
<1>1. head \in Commits /\ Len(head) = Len(tree.head) + 1
    BY DEF TreeType, Commits
<1>2. ASSUME NEW i \in 2..Len(head) PROVE head[i] \subseteq {a}
    BY <1>1, <1>2 DEF TreeType, Commits, OwnTree, OwnCommits
<1>3. next.head = head /\ next.dirty = {} /\ next.there = tree.there /\ next \in TreeType
    BY <1>1 DEF TreeType
<1> QED BY <1>2, <1>3 DEF OwnTree, OwnCommits

\* A step that leaves the trees alone, and one writer sound.
LEMMA WriterMoves ==
    ASSUME WorkspaceInv, NEW a \in Activations, NEW w \in WriterType, SoundWriter(a, w),
           writer' = [writer EXCEPT ![a] = w], UNCHANGED worktree
    PROVE  WorkspaceInv'
BY DEF WorkspaceInv, WorkspaceTypeOK, OwnTree, OwnCommits, SoundWriter

\* A step that replaces a worktree, and leaves one writer sound.
LEMMA TreeMoves ==
    ASSUME WorkspaceInv, NEW p \in Activations, NEW tree \in TreeType, OwnTree(p, tree), SetTree(p, tree),
           NEW a \in Activations, NEW w \in WriterType, SoundWriter(a, w), writer' = [writer EXCEPT ![a] = w]
    PROVE  WorkspaceInv'
BY DEF WorkspaceInv, WorkspaceTypeOK, OwnTree, OwnCommits, SoundWriter, SetTree

\* A writer that goes on without a new candidate, but to neither of the last steps.
LEMMA WriterGoes ==
    ASSUME WorkspaceInv, NEW a \in Activations, NEW step \in WriterSteps \ {"verify", "frozen"}
    PROVE  /\ [writer[a] EXCEPT !.step = step] \in WriterType
           /\ SoundWriter(a, [writer[a] EXCEPT !.step = step])
           /\ [writer EXCEPT ![a].step = step] = [writer EXCEPT ![a] = [writer[a] EXCEPT !.step = step]]
BY DEF WorkspaceInv, WorkspaceTypeOK, WriterType, SoundWriter

\* A writer that goes on without touching its worktree keeps the invariant.
LEMMA WriterStepGoes ==
    ASSUME WorkspaceInv, NEW a \in Activations, NEW step \in WriterSteps \ {"verify", "frozen"},
           GoTo(a, step), UNCHANGED worktree
    PROVE  WorkspaceInv'
BY WriterGoes, WriterMoves DEF GoTo

\* A writer that goes on with its own worktree changed keeps the invariant.
LEMMA GoesWithTree ==
    ASSUME WorkspaceInv, NEW a \in Activations, NEW step \in WriterSteps \ {"verify", "frozen"},
           GoTo(a, step), NEW tree \in TreeType, OwnTree(a, tree), SetTree(a, tree)
    PROVE  WorkspaceInv'
BY WriterGoes, TreeMoves DEF GoTo

\* A new candidate is the head of the own worktree, or the one there was.
LEMMA KeepsCandidate ==
    ASSUME WorkspaceInv, NEW a \in Activations, NEW commits \in Commits, OwnCommits(a, commits),
           NEW step \in WriterSteps \ {"frozen"}, step = "verify" => commits # Base, Keeps(a, commits, step)
    PROVE  WorkspaceInv'
<1> DEFINE w == [writer[a] EXCEPT !.step = step, !.candidate = commits]
<1>0. writer[a] \in WriterType
    BY DEF WorkspaceInv, WorkspaceTypeOK
<1>1. /\ w.step = step /\ w.candidate = commits /\ w \in WriterType
    BY <1>0 DEF WriterType
<1>. HIDE DEF w
<1>3. SoundWriter(a, w)
    BY <1>1 DEF SoundWriter
<1>. USE DEF w
<1>2. writer' = [writer EXCEPT ![a] = w] /\ UNCHANGED worktree
    BY DEF Keeps, WorkspaceInv, WorkspaceTypeOK
<1> QED BY <1>1, <1>3, <1>2, WriterMoves
\* Every Git command keeps the invariant.
LEMMA WorkspaceStep == ASSUME WorkspaceInv, WorkspaceNext PROVE WorkspaceInv'
<1> PICK a \in Activations :
        \/ ListPriorWriters(a) \/ QuarantinePrior(a) \/ RemoveOwn(a) \/ AddWorktree(a)
        \/ Work(a) \/ SessionOver(a)
        \/ GitFails(a) \/ RevParse(a) \/ Status(a) \/ CommitAll(a) \/ Reparse(a) \/ Verify(a)
        \/ QuarantineOwn(a) \/ WriterStops(a)
    BY DEF WorkspaceNext
<1> DEFINE w == writer[a]
           tree == worktree[a]
<1>0. /\ w \in WriterType /\ SoundWriter(a, w) /\ tree \in TreeType /\ OwnTree(a, tree)
      /\ WriterPath(a) = a /\ Tree(a) = tree /\ [writer EXCEPT ![a] = w] = writer
    BY DEF WorkspaceInv, WorkspaceTypeOK, WriterPath, Tree
<1>1. CASE ListPriorWriters(a)
  <2> DEFINE todo == {p \in Activations : p < a /\ worktree[p].there}
             n == [w EXCEPT !.step = "quarantining", !.todo = todo]
  <2>1. n \in WriterType /\ n.step = "quarantining" /\ n.candidate = w.candidate
      BY <1>0 DEF WriterType, WriterSteps
  <2>2. writer' = [writer EXCEPT ![a] = n] /\ UNCHANGED worktree
      BY <1>1 DEF ListPriorWriters, WorkspaceInv, WorkspaceTypeOK
  <2> HIDE DEF n
  <2>3. SoundWriter(a, n)
      BY <1>0, <2>1 DEF SoundWriter
  <2> QED BY <2>1, <2>2, <2>3, WriterMoves
<1>2. CASE QuarantinePrior(a)
  <2> PICK p \in w.todo : SetTree(p, NoTree) /\ writer' = [writer EXCEPT ![a].todo = @ \ {p}]
      BY <1>2 DEF QuarantinePrior
  <2> DEFINE n == [w EXCEPT !.todo = @ \ {p}]
  <2>1. p \in Activations /\ n \in WriterType /\ n.step = w.step /\ n.candidate = w.candidate
      BY <1>0 DEF WriterType
  <2>2. writer' = [writer EXCEPT ![a] = n]
      BY DEF WorkspaceInv, WorkspaceTypeOK
  <2> HIDE DEF n
  <2>3. SoundWriter(a, n)
      BY <1>0, <2>1 DEF SoundWriter
  <2> QED BY <2>1, <2>2, <2>3, SomeTrees, TreeMoves
<1>3. CASE RemoveOwn(a)
    BY <1>0, <1>3, SomeTrees, GoesWithTree DEF RemoveOwn, WriterSteps
<1>4. CASE AddWorktree(a)
    BY <1>0, <1>4, SomeTrees, GoesWithTree DEF AddWorktree, WriterSteps
<1>5. CASE Work(a)
  <2>1. UNCHANGED writer
      BY <1>5 DEF Work
  <2>2. PICK next \in TreeType : OwnTree(a, next) /\ SetTree(a, next)
    <3> DEFINE edited == [tree EXCEPT !.dirty = @ \cup {a}]
               committed == [tree EXCEPT !.head = Append(@, tree.dirty), !.dirty = {}]
               parted == [tree EXCEPT !.head = Parent, !.dirty = {}]
    <3>1. SetTree(a, edited) \/ SetTree(a, committed) \/ SetTree(a, parted)
        BY <1>0, <1>5 DEF Work
    <3>2. edited \in TreeType /\ edited.head = tree.head /\ edited.dirty = tree.dirty \cup {a}
        BY <1>0 DEF TreeType
    <3>3. committed \in TreeType /\ OwnTree(a, committed)
        BY <1>0, OwnCommit
    <3>0. <<>> \in Commits
        BY DEF Commits
    <3>4. parted \in TreeType /\ parted.head = <<>> /\ parted.dirty = {}
        BY <1>0, <3>0 DEF TreeType, Parent
    <3> HIDE DEF edited, parted, committed
    <3>5. OwnTree(a, edited)
        BY <1>0, <3>2 DEF OwnTree
    <3>6. OwnTree(a, parted)
        BY <3>4 DEF OwnTree, OwnCommits
    <3> QED BY <3>1, <3>2, <3>3, <3>4, <3>5, <3>6
  <2> QED BY <1>0, <2>1, <2>2, TreeMoves
<1>6. CASE SessionOver(a)
    BY <1>6, WriterStepGoes DEF SessionOver, WriterSteps, Freezing
<1>7. CASE GitFails(a)
    BY <1>7, WriterStepGoes DEF GitFails, Fails, WriterSteps
<1>8. CASE RevParse(a)
    BY <1>0, <1>8, KeepsCandidate DEF RevParse, WriterSteps, Freezing, TreeType, OwnTree
<1>9. CASE Status(a)
  <2>1. w.candidate \in Commits /\ OwnCommits(a, w.candidate) /\ Base \in Commits /\ OwnCommits(a, Base)
      BY <1>0 DEF WriterType, SoundWriter, Base, OwnCommits, Commits
  <2> QED BY <1>9, <2>1, KeepsCandidate DEF Status, WriterSteps, Freezing
<1>10. CASE CommitAll(a)
    BY <1>0, <1>10, OwnCommit, GoesWithTree DEF CommitAll, WriterSteps, Freezing
<1>11. CASE Reparse(a)
    BY <1>0, <1>11, KeepsCandidate DEF Reparse, WriterSteps, Freezing, TreeType, OwnTree
<1>12. CASE Verify(a)
  <2> DEFINE n == [w EXCEPT !.step = "frozen"]
  <2>1. n \in WriterType /\ n.step = "frozen" /\ n.candidate = w.candidate
      BY <1>0 DEF WriterType, WriterSteps
  <2>2. writer' = [writer EXCEPT ![a] = n] /\ UNCHANGED worktree
      BY <1>12 DEF Verify, GoTo, WorkspaceInv, WorkspaceTypeOK
  <2>3. IsStrictPrefix(Base, w.candidate)
      BY <1>0, <1>12 DEF Verify, Runs, AtStep, SoundWriter, IsStrictPrefix
  <2> HIDE DEF n
  <2>4. SoundWriter(a, n)
      BY <1>0, <2>1, <2>3 DEF SoundWriter
  <2> QED BY <2>1, <2>2, <2>4, WriterMoves
<1>13. CASE QuarantineOwn(a)
    BY <1>0, <1>13, SomeTrees, GoesWithTree DEF QuarantineOwn, WriterSteps
<1>14. CASE WriterStops(a)
    BY <1>14, WriterStepGoes DEF WriterStops, WriterSteps
<1> QED BY <1>1, <1>2, <1>3, <1>4, <1>5, <1>6, <1>7, <1>8, <1>9, <1>10, <1>11, <1>12, <1>13, <1>14

\* Worktrees and candidates are their activation's own work in every reachable state.
LEMMA WorkspaceInvariance == WorkspaceSpec => []WorkspaceInv
<1>1. WorkspaceInit => WorkspaceInv
  <2> SUFFICES ASSUME WorkspaceInit PROVE WorkspaceInv
      OBVIOUS
  <2> DEFINE idle == [step |-> "idle", todo |-> {}, candidate |-> Parent]
  <2>1. idle \in WriterType /\ \A a \in Activations : SoundWriter(a, idle)
      BY DEF WriterType, WriterSteps, Commits, Parent, SoundWriter, OwnCommits
  <2> HIDE DEF idle
  <2>2. worktree = [a \in Activations |-> NoTree] /\ writer = [a \in Activations |-> idle]
      BY DEF WorkspaceInit, idle
  <2> QED BY <2>1, <2>2, SomeTrees DEF WorkspaceInv, WorkspaceTypeOK
<1>2. WorkspaceInv /\ UNCHANGED workspaceVars => WorkspaceInv'
    BY DEF WorkspaceInv, WorkspaceTypeOK, workspaceVars, OwnTree, OwnCommits, SoundWriter
<1> QED BY <1>1, <1>2, WorkspaceStep, PTL DEF WorkspaceSpec

\* A frozen candidate continues the base and holds nothing but its own activation's work,
\* whichever executions of the Task remove and add worktrees meanwhile.
THEOREM FrozenStaysOwn == WorkspaceSpec => []FrozenIsOwnWork
<1>1. WorkspaceInv => FrozenIsOwnWork
    BY DEF WorkspaceInv, FrozenIsOwnWork, SoundWriter, OwnCommits, AtStep
<1> QED BY <1>1, WorkspaceInvariance, PTL

(***************************************************************************)
(* The archive of a session.                                               *)
(***************************************************************************)
ClosingStages == {"no", "storing", "turn", "pruning", "last", "done"}
FinishStages == {"storing", "turn", "pruning", "last"}
RunningSteps == {"begun", "preparing", "turn", "output", "normalizing"}

OutcomeType ==
    [status : ArchiveStatuses \cup {"none"},
     class : {"none", "timeout", "cancellation", "configuration", "provider"},
     usage : Nat, is : Completeness]
CallType ==
    [step : {"idle", "finishing", "done", "lost"} \cup RunningSteps, usage : Nat,
     is : Completeness, finalized : BOOLEAN, outcome : OutcomeType]

\* The record says what the session has seen, and in the end what it reports.
Follows(r, call) ==
    /\ r \in ArchiveRecord /\ r.usage = call.usage /\ r.usageIs = call.is
    /\ ~call.finalized => call.is # "complete"
SaysOutcome(r, outcome) ==
    /\ r \in ArchiveRecord
    /\ r.status = outcome.status /\ r.usage = outcome.usage /\ r.usageIs = outcome.is

\* A session with its record, its stage of finish(), and its file.
SoundCall(call, r, stage, unsettled, lost, file) ==
    /\ call \in CallType /\ stage \in ClosingStages
    /\ call.step \in {"idle", "begun"} => call.usage = 0 /\ call.is = "none" /\ call.finalized = FALSE
    /\ call.step = "idle" => stage = "no"
    /\ call.step \in RunningSteps => stage = "no" /\ Follows(r, call)
    /\ call.step = "finishing" => stage \in FinishStages /\ SaysOutcome(r, call.outcome)
    /\ stage \in FinishStages => call.step = "finishing"
    /\ stage = "last" /\ ~unsettled /\ ~lost => file = r

Sound(s) == SoundCall(session[s], record[s], closing[s], s \in queued, s \in unwritable, disk[s])

\* Who prunes, or has pruned and stores its record again, has the turn.
InTurn ==
    /\ pruneLock \in Seq(Sessions)
    /\ \A s \in Sessions : closing[s] \in {"pruning", "last"} => HasTurn(s)

SessionTypeOK ==
    /\ session \in [Sessions -> CallType]
    /\ DOMAIN record = Sessions /\ DOMAIN disk = Sessions
    /\ closing \in [Sessions -> ClosingStages]

SessionInv ==
    /\ SessionTypeOK
    /\ InTurn
    /\ \A s \in Sessions : Sound(s)

\* Recorded usage is what was given, and never less complete.
LEMMA UsageIsRecorded ==
    ASSUME NEW r \in ArchiveRecord, NEW usage \in Nat, NEW is \in Completeness
    PROVE  /\ WithUsage(r, usage, is) \in ArchiveRecord
           /\ WithUsage(r, usage, is).status = r.status
           /\ ~(r.usageIs = "complete" /\ is = "partial") =>
                 /\ WithUsage(r, usage, is).usage = usage
                 /\ WithUsage(r, usage, is).usageIs = IF is = "none" THEN r.usageIs ELSE is
BY DEF WithUsage, ArchiveRecord, Completeness

\* Cutting a record to its limit keeps its status and its usage.
LEMMA BoundedSaysTheSame ==
    ASSUME NEW r \in ArchiveRecord
    PROVE  /\ Bounded(r) \in ArchiveRecord
           /\ Bounded(r).status = r.status
           /\ Bounded(r).usage = r.usage /\ Bounded(r).usageIs = r.usageIs
BY DEF Bounded, ArchiveRecord

\* The result of the provider is recorded with the usage observed.
LEMMA ProviderResultIsRecorded ==
    ASSUME NEW r \in ArchiveRecord, NEW usage \in Nat, NEW is \in Completeness, r.usageIs = is
    PROVE  /\ WithProviderResult(r, usage, is) \in ArchiveRecord
           /\ WithProviderResult(r, usage, is).usage = usage
           /\ WithProviderResult(r, usage, is).usageIs = is
<1> DEFINE size == r.size + 1
           now == IF is = "none" THEN r.usageIs ELSE is
<1>1. size \in Nat /\ now = is
    BY DEF ArchiveRecord
<1>2. WithProviderResult(r, usage, is) = [r EXCEPT !.size = size, !.usage = usage, !.usageIs = now]
    BY DEF WithProviderResult
<1> HIDE DEF size, now
<1> QED BY <1>1, <1>2 DEF ArchiveRecord

\* The outcome is recorded over a record that follows the session.
LEMMA OutcomeIsRecorded ==
    ASSUME NEW r \in ArchiveRecord, NEW call \in CallType, Follows(r, call), NEW status \in ArchiveStatuses
    PROVE  LET w == WithOutcome(r, status, call.usage, call.is)
           IN  w \in ArchiveRecord /\ w.status = status /\ w.usage = call.usage /\ w.usageIs = call.is
<1> DEFINE usage == IF call.usage = 0 THEN r.usage ELSE call.usage
           u == WithUsage(r, usage, call.is)
<1>1. usage = call.usage /\ call.usage \in Nat /\ call.is \in Completeness /\ r.usageIs = call.is
    BY DEF Follows, CallType
<1>2. u \in ArchiveRecord /\ u.usage = call.usage /\ u.usageIs = call.is
    <2> HIDE DEF usage
    <2>1. ~(r.usageIs = "complete" /\ call.is = "partial")
        BY <1>1
    <2>2. u.usageIs = (IF call.is = "none" THEN r.usageIs ELSE call.is) /\ u.usage = usage
        BY <1>1, <2>1, UsageIsRecorded
    <2>3. u \in ArchiveRecord
        BY <1>1, UsageIsRecorded
    <2> QED BY <1>1, <2>2, <2>3
<1> HIDE DEF u
<1> QED BY <1>2 DEF WithOutcome, u, ArchiveRecord

\* A session goes on, with a record scheduled, and no file is touched.
LEMMA CallMoves ==
    ASSUME SessionInv, NEW s \in Sessions, NEW call, NEW r,
           SoundCall(call, r, closing[s], TRUE, s \in unwritable, disk[s]),
           session' = [session EXCEPT ![s] = call], Capture(s, r), KeepFiles
    PROVE  SessionInv'
<1>1. /\ record' = [record EXCEPT ![s] = r] /\ queued' = queued \cup {s}
      /\ disk' = disk /\ unwritable' = unwritable /\ closing' = closing /\ pruneLock' = pruneLock
    BY DEF Capture, KeepFiles
<1>2. SessionTypeOK /\ InTurn /\ \A o \in Sessions : Sound(o)
    BY DEF SessionInv
<1>3. SessionTypeOK'
    BY <1>1, <1>2 DEF SessionTypeOK, SoundCall
<1>4. InTurn'
    BY <1>1, <1>2 DEF InTurn, HasTurn
<1>5. Sound(s)'
    BY <1>1, <1>2 DEF Sound, SessionTypeOK
<1>6. ASSUME NEW o \in Sessions, o # s PROVE Sound(o)'
    <2>1. /\ session'[o] = session[o] /\ record'[o] = record[o]
          /\ o \in queued' <=> o \in queued
        BY <1>1, <1>2, <1>6 DEF SessionTypeOK
    <2> QED BY <1>1, <1>2, <2>1 DEF Sound, SoundCall
<1> QED BY <1>3, <1>4, <1>5, <1>6 DEF SessionInv

\* The end of a session goes into the record it finishes with.
LEMMA CallEnds ==
    ASSUME SessionInv, NEW s \in Sessions, session[s].step \in RunningSteps,
           NEW status \in ArchiveStatuses,
           NEW class \in {"none", "timeout", "cancellation", "configuration", "provider"},
           Ends(s, status, class, session[s].usage, session[s].is)
    PROVE  SessionInv'
<1> DEFINE call == session[s]
           w == WithOutcome(record[s], status, call.usage, call.is)
           outcome == [status |-> status, class |-> class, usage |-> call.usage, is |-> call.is]
<1>1. /\ session' = [session EXCEPT ![s].step = "finishing", ![s].outcome = outcome]
      /\ record' = [record EXCEPT ![s] = w] /\ queued' = queued \cup {s}
      /\ disk' = disk /\ unwritable' = unwritable /\ pruneLock' = pruneLock
      /\ closing' = [closing EXCEPT ![s] = "storing"]
    BY Zenon DEF Ends, Finish, Capture
<1>2. SessionTypeOK /\ InTurn /\ \A o \in Sessions : Sound(o)
    BY DEF SessionInv
<1>3. call \in CallType /\ Follows(record[s], call) /\ closing[s] = "no"
    BY <1>2 DEF SessionTypeOK, Sound, SoundCall
<1>4. w \in ArchiveRecord /\ w.status = status /\ w.usage = call.usage /\ w.usageIs = call.is
    BY <1>3, OutcomeIsRecorded DEF Follows
<1>5. outcome \in OutcomeType
    BY <1>3 DEF OutcomeType, CallType
<1> HIDE DEF w
<1>6. /\ session' \in [Sessions -> CallType]
      /\ session'[s].step = "finishing" /\ session'[s].outcome = outcome
      /\ \A o \in Sessions : o # s => session'[o] = session[o]
    BY <1>1, <1>2, <1>5 DEF SessionTypeOK, CallType
<1>7. SessionTypeOK'
    BY <1>1, <1>2, <1>6 DEF SessionTypeOK, ClosingStages
<1>8. InTurn'
    BY <1>1, <1>2 DEF InTurn, HasTurn, SessionTypeOK
<1>9. SaysOutcome(w, outcome)
    BY <1>4 DEF SaysOutcome
<1>10. Sound(s)'
    <2>1. record'[s] = w /\ closing'[s] = "storing"
        BY <1>1, <1>2 DEF SessionTypeOK
    <2>2. SoundCall(session'[s], w, "storing", s \in queued', s \in unwritable', disk'[s])
        BY <1>6, <1>9 DEF SoundCall, ClosingStages, FinishStages, RunningSteps
    <2> QED BY <2>1, <2>2 DEF Sound
<1>11. ASSUME NEW o \in Sessions, o # s PROVE Sound(o)'
    <2>1. /\ session'[o] = session[o] /\ record'[o] = record[o] /\ closing'[o] = closing[o]
          /\ o \in queued' <=> o \in queued
        BY <1>1, <1>2, <1>6, <1>11 DEF SessionTypeOK
    <2> QED BY <1>1, <1>2, <2>1 DEF Sound, SoundCall
<1> QED BY <1>7, <1>8, <1>10, <1>11 DEF SessionInv

\* A session goes on between two looks at its archive.
LEMMA CallGoes ==
    ASSUME SessionInv, NEW s \in Sessions, NEW step \in {"preparing", "normalizing"},
           session[s].step \in RunningSteps, Goes(s, step), KeepArchive
    PROVE  SessionInv'
<1> DEFINE call == session[s]
           next == [call EXCEPT !.step = step]
<1>1. SessionTypeOK /\ InTurn /\ \A o \in Sessions : Sound(o)
    BY DEF SessionInv
<1>2. call \in CallType /\ SoundCall(call, record[s], closing[s], s \in queued, s \in unwritable, disk[s])
    BY <1>1 DEF SessionTypeOK, Sound
<1>3. /\ session' = [session EXCEPT ![s] = next]
      /\ record' = record /\ disk' = disk /\ queued' = queued /\ unwritable' = unwritable
      /\ closing' = closing /\ pruneLock' = pruneLock
    BY <1>1 DEF Goes, KeepArchive, archiveVars, SessionTypeOK
<1>4. /\ next \in CallType /\ next.step = step
      /\ next.usage = call.usage /\ next.is = call.is /\ next.finalized = call.finalized
    BY <1>2 DEF CallType, RunningSteps
<1> HIDE DEF next
<1>5. SessionTypeOK' /\ InTurn'
    BY <1>1, <1>3, <1>4 DEF SessionTypeOK, InTurn, HasTurn
<1>6. SoundCall(next, record[s], closing[s], s \in queued, s \in unwritable, disk[s])
    BY <1>2, <1>4 DEF SoundCall, Follows, RunningSteps, FinishStages
<1>7. ASSUME NEW o \in Sessions PROVE Sound(o)'
    <2>1. CASE o = s
        BY <1>1, <1>3, <1>6, <2>1 DEF Sound, SessionTypeOK
    <2>2. CASE o # s
        <3>1. session'[o] = session[o]
            BY <1>1, <1>3, <2>2 DEF SessionTypeOK
        <3> QED BY <1>1, <1>3, <3>1 DEF Sound, SoundCall
    <2> QED BY <2>1, <2>2
<1> QED BY <1>5, <1>7 DEF SessionInv

\* The invariant of sessions and archives holds initially.
LEMMA SessionInitially == SessionInit => SessionInv
<1> SUFFICES ASSUME SessionInit PROVE SessionInv
    OBVIOUS
<1>1. /\ session = [s \in Sessions |-> NewSession]
      /\ record = [s \in Sessions |-> NoArchive] /\ queued = {} /\ unwritable = {}
      /\ closing = [s \in Sessions |-> "no"] /\ pruneLock = <<>>
      /\ DOMAIN disk = Sessions
    BY DEF SessionInit, ArchiveInit
<1>2. NewSession \in CallType /\ NewSession.step = "idle" /\ NewSession.usage = 0
      /\ NewSession.is = "none" /\ NewSession.finalized = FALSE
    BY DEF NewSession, NoOutcome, CallType, OutcomeType, Completeness
<1>3. \A s \in Sessions : Sound(s)
    BY <1>1, <1>2 DEF Sound, SoundCall, ClosingStages, RunningSteps, FinishStages
<1>4. SessionTypeOK
    BY <1>1, <1>2 DEF SessionTypeOK, ClosingStages
<1> QED BY <1>1, <1>3, <1>4 DEF SessionInv, InTurn

\* Every step of a session keeps the invariant.
LEMMA CallSteps ==
    ASSUME SessionInv, NEW s \in Sessions, SessionStep(s)
    PROVE  SessionInv'
<1> DEFINE call == session[s]
<1>1. SessionTypeOK /\ InTurn /\ \A o \in Sessions : Sound(o)
    BY DEF SessionInv
<1>2. call \in CallType /\ SoundCall(call, record[s], closing[s], s \in queued, s \in unwritable, disk[s])
    BY <1>1 DEF SessionTypeOK, Sound
<1>3. ASSUME NEW class \in {"provider", "configuration"}, Throws(s, class), call.step \in RunningSteps
      PROVE  SessionInv'
    <2>1. PICK fired \in SUBSET Causes :
              Ends(s, IF fired = {} THEN "failed" ELSE "cancelled",
                   IF "deadline" \in fired THEN "timeout"
                   ELSE IF fired # {} THEN "cancellation" ELSE class,
                   session[s].usage, session[s].is)
        BY <1>3 DEF Throws
    <2>2. (IF fired = {} THEN "failed" ELSE "cancelled") \in ArchiveStatuses
        BY DEF ArchiveStatuses
    <2>3. (IF "deadline" \in fired THEN "timeout" ELSE IF fired # {} THEN "cancellation" ELSE class)
              \in {"none", "timeout", "cancellation", "configuration", "provider"}
        BY <1>3
    <2> QED BY <1>3, <2>1, <2>2, <2>3, CallEnds
<1>4. CASE BeginSession(s)
    <2> DEFINE next == [call EXCEPT !.step = "begun"]
    <2>1. call.step = "idle" /\ session' = [session EXCEPT ![s] = next]
        BY <1>1, <1>4 DEF BeginSession, Step, Goes, SessionTypeOK
    <2>2. next \in CallType /\ next.step = "begun" /\ next.usage = 0 /\ next.is = "none" /\ next.finalized = FALSE
        BY <1>2, <2>1 DEF SoundCall, CallType, RunningSteps
    <2> HIDE DEF next
    <2>3. NewRecord \in ArchiveRecord /\ NewRecord.usage = 0 /\ NewRecord.usageIs = "none"
        BY DEF NewRecord, ArchiveRecord, ArchiveStatuses, Completeness
    <2>4. SoundCall(next, NewRecord, closing[s], TRUE, s \in unwritable, disk[s])
        BY <1>2, <2>1, <2>2, <2>3 DEF SoundCall, Follows, RunningSteps, FinishStages
    <2> QED BY <1>4, <2>1, <2>4, CallMoves DEF BeginSession
<1>5. CASE StartSession(s)
    <2>1. call.step = "begun" /\ call.usage = 0 /\ call.is = "none"
        BY <1>2, <1>5 DEF StartSession, Step, SoundCall
    <2>2. CASE Goes(s, "preparing") /\ KeepArchive
        BY <1>5, <2>1, <2>2, CallGoes DEF RunningSteps
    <2>3. ASSUME NEW status \in ArchiveStatuses, NEW class \in {"timeout", "cancellation"},
                 Ends(s, status, class, 0, "none")
          PROVE  SessionInv'
        <3>1. Ends(s, status, class, session[s].usage, session[s].is)
            BY <2>1, <2>3
        <3> QED BY <2>1, <3>1, CallEnds DEF RunningSteps
    <2> QED BY <1>5, <2>2, <2>3 DEF StartSession, ArchiveStatuses
<1>6. CASE PrepareSession(s)
    <2>1. call.step = "preparing"
        BY <1>6 DEF PrepareSession, Step
    <2>2. CASE Goes(s, "turn") /\ Capture(s, record[s]) /\ KeepFiles
        <3> DEFINE next == [call EXCEPT !.step = "turn"]
        <3>1. session' = [session EXCEPT ![s] = next]
            BY <1>1, <2>2 DEF Goes, SessionTypeOK
        <3>2. /\ next \in CallType /\ next.step = "turn"
              /\ next.usage = call.usage /\ next.is = call.is /\ next.finalized = call.finalized
            BY <1>2, <2>1 DEF CallType, RunningSteps
        <3> HIDE DEF next
        <3>3. SoundCall(next, record[s], closing[s], TRUE, s \in unwritable, disk[s])
            BY <1>2, <2>1, <3>2 DEF SoundCall, Follows, RunningSteps, FinishStages
        <3> QED BY <2>2, <3>1, <3>3, CallMoves
    <2> QED BY <1>3, <1>6, <2>1, <2>2 DEF PrepareSession, RunningSteps
<1>7. CASE ItemCompleted(s)
    <2> DEFINE r == [record[s] EXCEPT !.size = @ + 1]
    <2>1. call.step = "turn" /\ session' = session /\ Capture(s, r) /\ KeepFiles
        BY <1>7 DEF ItemCompleted, Step
    <2>2. Follows(record[s], call) /\ closing[s] = "no"
        BY <1>2, <2>1 DEF SoundCall, RunningSteps
    <2>3. r \in ArchiveRecord /\ r.usage = record[s].usage /\ r.usageIs = record[s].usageIs
        BY <2>2 DEF Follows, ArchiveRecord
    <2> HIDE DEF r
    <2>4. SoundCall(call, r, closing[s], TRUE, s \in unwritable, disk[s])
        BY <1>2, <2>1, <2>2, <2>3 DEF SoundCall, Follows, RunningSteps, FinishStages
    <2>5. session' = [session EXCEPT ![s] = call]
        BY <1>1, <2>1 DEF SessionTypeOK
    <2> QED BY <2>1, <2>4, <2>5, CallMoves
<1>8. CASE ArtifactUsage(s)
    <2> DEFINE next == Observes(s, call.usage + 1, "partial")
               r == WithUsage(record[s], call.usage + 1, "partial")
    <2>1. /\ call.step = "turn" /\ call.finalized = FALSE
          /\ session' = [session EXCEPT ![s] = next] /\ Capture(s, r) /\ KeepFiles
        BY <1>2, <1>8 DEF ArtifactUsage, ReportsArtifact, Step, CallType
    <2>2. Follows(record[s], call) /\ closing[s] = "no"
        BY <1>2, <2>1 DEF SoundCall, RunningSteps
    <2>3. call.usage + 1 \in Nat /\ "partial" \in Completeness
        BY <1>2 DEF CallType, Completeness
    <2>4. /\ next \in CallType /\ next.step = "turn"
          /\ next.usage = call.usage + 1 /\ next.is = "partial"
        BY <1>2, <2>1, <2>3 DEF Observes, CallType
    <2>5. r \in ArchiveRecord /\ r.usage = call.usage + 1 /\ r.usageIs = "partial"
        BY <2>1, <2>2, <2>3, UsageIsRecorded DEF Follows
    <2> HIDE DEF next, r
    <2>6. SoundCall(next, r, closing[s], TRUE, s \in unwritable, disk[s])
        BY <1>2, <2>2, <2>4, <2>5 DEF SoundCall, Follows, RunningSteps, FinishStages
    <2> QED BY <2>1, <2>6, CallMoves
<1>9. CASE TurnCompleted(s)
    <2> DEFINE is == IF call.is = "partial" THEN "complete" ELSE "none"
    <2>1. PICK usage \in call.usage..MaxUsage[s] :
              /\ session' = [session EXCEPT ![s] = [Observes(s, usage, is) EXCEPT !.finalized = TRUE]]
              /\ Capture(s, WithUsage(record[s], usage, is))
        BY <1>9 DEF TurnCompleted
    <2>2. call.step = "turn" /\ call.finalized = FALSE /\ KeepFiles
        BY <1>2, <1>9 DEF TurnCompleted, Step, CallType
    <2>3. Follows(record[s], call) /\ closing[s] = "no"
        BY <1>2, <2>2 DEF SoundCall, RunningSteps
    <2>4. usage \in Nat /\ is \in Completeness /\ is # "partial"
        BY <1>2, SessionAssumption DEF CallType, Completeness
    <2> DEFINE next == [Observes(s, usage, is) EXCEPT !.finalized = TRUE]
               r == WithUsage(record[s], usage, is)
               now == IF is = "none" THEN call.is ELSE is
    <2>5. r \in ArchiveRecord /\ r.usage = usage /\ r.usageIs = now
        <3> HIDE DEF is
        <3> QED BY <2>3, <2>4, UsageIsRecorded DEF Follows
    <2>6. /\ next \in CallType /\ next.step = "turn" /\ next.finalized = TRUE
          /\ next.usage = usage /\ next.is = now
        <3> HIDE DEF is
        <3> QED BY <1>2, <2>2, <2>4 DEF Observes, CallType
    <2> HIDE DEF next, r, now
    <2>7. SoundCall(next, r, closing[s], TRUE, s \in unwritable, disk[s])
        BY <1>2, <2>3, <2>5, <2>6 DEF SoundCall, Follows, RunningSteps, FinishStages
    <2>8. session' = [session EXCEPT ![s] = next] /\ Capture(s, r)
        BY <2>1 DEF next, r
    <2> QED BY <2>2, <2>7, <2>8, CallMoves
<1>10. CASE TurnFails(s)
    BY <1>3, <1>10 DEF TurnFails, Step, RunningSteps
<1>11. CASE StreamEnds(s)
    <2> DEFINE next == [call EXCEPT !.step = "output"]
               r == WithProviderResult(record[s], call.usage, call.is)
    <2>1. call.step = "turn" /\ session' = [session EXCEPT ![s] = next] /\ Capture(s, r) /\ KeepFiles
        BY <1>1, <1>11 DEF StreamEnds, Step, Goes, SessionTypeOK
    <2>2. Follows(record[s], call) /\ closing[s] = "no"
        BY <1>2, <2>1 DEF SoundCall, RunningSteps
    <2>3. r \in ArchiveRecord /\ r.usage = call.usage /\ r.usageIs = call.is
        <3>1. record[s] \in ArchiveRecord /\ call.usage \in Nat /\ call.is \in Completeness
              /\ record[s].usageIs = call.is
            BY <1>2, <2>2 DEF Follows, CallType
        <3>2. /\ WithProviderResult(record[s], call.usage, call.is) \in ArchiveRecord
              /\ WithProviderResult(record[s], call.usage, call.is).usage = call.usage
              /\ WithProviderResult(record[s], call.usage, call.is).usageIs = call.is
            BY <3>1, ProviderResultIsRecorded
        <3> QED BY <3>2
    <2>4. /\ next \in CallType /\ next.step = "output" /\ next.usage = call.usage
          /\ next.is = call.is /\ next.finalized = call.finalized
        BY <1>2 DEF CallType, RunningSteps
    <2> HIDE DEF next, r
    <2>5. SoundCall(next, r, closing[s], TRUE, s \in unwritable, disk[s])
        BY <1>2, <2>2, <2>3, <2>4 DEF SoundCall, Follows, RunningSteps, FinishStages
    <2> QED BY <2>1, <2>5, CallMoves
<1>12. CASE ParseOutput(s)
    <2>1. call.step = "output"
        BY <1>12 DEF ParseOutput, Step
    <2>2. CASE Goes(s, "normalizing") /\ KeepArchive
        BY <2>1, <2>2, CallGoes DEF RunningSteps
    <2>3. CASE EndsWith(s, "completed", "none")
        BY <2>1, <2>3, CallEnds DEF EndsWith, RunningSteps, ArchiveStatuses
    <2>4. CASE EndsWith(s, "failed", "configuration")
        BY <2>1, <2>4, CallEnds DEF EndsWith, RunningSteps, ArchiveStatuses
    <2> QED BY <1>12, <2>2, <2>3, <2>4 DEF ParseOutput
<1>13. CASE TransformOutput(s)
    <2>1. call.step = "normalizing"
        BY <1>13 DEF TransformOutput, Step
    <2>2. CASE EndsWith(s, "completed", "none")
        BY <2>1, <2>2, CallEnds DEF EndsWith, RunningSteps, ArchiveStatuses
    <2>3. CASE EndsWith(s, "failed", "configuration")
        BY <2>1, <2>3, CallEnds DEF EndsWith, RunningSteps, ArchiveStatuses
    <2> QED BY <1>3, <1>13, <2>1, <2>2, <2>3 DEF TransformOutput, RunningSteps
<1>14. CASE ReturnObservation(s)
    <2> DEFINE next == [NewSession EXCEPT !.step = "done"]
    <2>1. /\ closing[s] = "last"
          /\ closing' = [closing EXCEPT ![s] = "done"] /\ pruneLock' = Tail(pruneLock)
          /\ record' = record /\ disk' = disk /\ queued' = queued /\ unwritable' = unwritable
          /\ session' = [session EXCEPT ![s] = next]
        BY <1>14 DEF ReturnObservation, Finished, Release
    <2>2. next \in CallType /\ next.step = "done"
        BY DEF NewSession, NoOutcome, CallType, OutcomeType, Completeness
    <2> HIDE DEF next
    <2>3. SessionTypeOK'
        BY <1>1, <2>1, <2>2 DEF SessionTypeOK, ClosingStages
    <2>4. pruneLock \in Seq(Sessions) /\ pruneLock # <<>> /\ Head(pruneLock) = s
        BY <1>1, <2>1 DEF InTurn, HasTurn
    <2>5. \A o \in Sessions : o # s => closing[o] \notin {"pruning", "last"}
        BY <1>1, <2>4 DEF InTurn, HasTurn
    <2>6. InTurn'
        BY <1>1, <2>1, <2>4, <2>5 DEF InTurn, SessionTypeOK
    <2>7. Sound(s)'
        BY <1>1, <2>1, <2>2 DEF Sound, SoundCall, SessionTypeOK, RunningSteps, FinishStages, ClosingStages
    <2>8. ASSUME NEW o \in Sessions, o # s PROVE Sound(o)'
        <3>1. session'[o] = session[o] /\ closing'[o] = closing[o]
            BY <1>1, <2>1, <2>8 DEF SessionTypeOK
        <3> QED BY <1>1, <2>1, <3>1 DEF Sound, SoundCall
    <2> QED BY <2>3, <2>6, <2>7, <2>8 DEF SessionInv
<1> QED BY <1>4, <1>5, <1>6, <1>7, <1>8, <1>9, <1>10, <1>11, <1>12, <1>13, <1>14 DEF SessionStep

\* What the archives do on their own: persists, turns, retention passes, cleanups.
LEMMA ArchiveSteps ==
    ASSUME SessionInv, NEW s \in Sessions,
           ArchiveStep(s) \/ PersistFails(s) \/ Cleanup(s), UNCHANGED session
    PROVE  SessionInv'
<1>1. SessionTypeOK /\ InTurn /\ \A o \in Sessions : Sound(o)
    BY DEF SessionInv
<1>2. \A o \in Sessions : session'[o] = session[o]
    OBVIOUS
\* The turn keeps the files of those that store their record again from the others' passes.
<1>3. ASSUME closing[s] = "pruning", NEW o \in Sessions, o # s PROVE closing[o] # "last"
    BY <1>1, <1>3 DEF InTurn, HasTurn
<1>4. CASE Persist(s)
    <2>1. /\ queued' = queued \ {s} /\ unwritable' = unwritable
          /\ closing' = closing /\ pruneLock' = pruneLock
        BY <1>4 DEF Persist
    <2>2. CASE s \in unwritable
        <3>1. record' = record /\ disk' = disk
            BY <1>4, <2>2 DEF Persist
        <3>2. ASSUME NEW o \in Sessions PROVE Sound(o)'
            <4>1. (o \in queued') => (o \in queued)
                BY <2>1
            <4>2. o # s => ((o \in queued) <=> (o \in queued'))
                BY <2>1
            <4> QED BY <1>1, <1>2, <2>1, <2>2, <3>1, <4>1, <4>2 DEF Sound, SoundCall
        <3> QED BY <1>1, <2>1, <3>1, <3>2 DEF SessionInv, SessionTypeOK, InTurn, HasTurn
    <2>3. CASE s \notin unwritable
        <3> DEFINE r == Bounded(record[s])
        <3>1. record' = [record EXCEPT ![s] = r] /\ disk' = [disk EXCEPT ![s] = r]
            BY <1>4, <2>3 DEF Persist
        <3>2. SessionTypeOK'
            BY <1>1, <2>1, <3>1 DEF SessionTypeOK
        <3>3. record[s] \in ArchiveRecord => /\ r \in ArchiveRecord /\ r.status = record[s].status
                                             /\ r.usage = record[s].usage /\ r.usageIs = record[s].usageIs
            BY BoundedSaysTheSame
        <3> HIDE DEF r
        <3>4. Sound(s)'
            <4>1. record'[s] = r /\ disk'[s] = r
                BY <1>1, <3>1 DEF SessionTypeOK
            <4>2. SoundCall(session[s], r, closing[s], s \in queued', s \in unwritable, r)
                BY <1>1, <3>3 DEF Sound, SoundCall, Follows, SaysOutcome
            <4> QED BY <1>2, <2>1, <4>1, <4>2 DEF Sound
        <3>5. ASSUME NEW o \in Sessions, o # s PROVE Sound(o)'
            <4>1. record'[o] = record[o] /\ disk'[o] = disk[o] /\ ((o \in queued') <=> (o \in queued))
                BY <1>1, <2>1, <3>1, <3>5 DEF SessionTypeOK
            <4> QED BY <1>1, <1>2, <2>1, <4>1 DEF Sound, SoundCall
        <3> QED BY <1>1, <2>1, <3>2, <3>4, <3>5 DEF SessionInv, InTurn, HasTurn
    <2> QED BY <2>2, <2>3
<1>5. CASE AwaitTurn(s)
    <2>1. /\ closing[s] = "storing" /\ closing' = [closing EXCEPT ![s] = "turn"]
          /\ pruneLock' = Append(pruneLock, s)
          /\ record' = record /\ disk' = disk /\ queued' = queued /\ unwritable' = unwritable
        BY <1>5 DEF AwaitTurn
    <2>2. SessionTypeOK'
        BY <1>1, <2>1 DEF SessionTypeOK, ClosingStages
    <2>3. pruneLock' \in Seq(Sessions) /\ (pruneLock # <<>> => pruneLock' # <<>> /\ Head(pruneLock') = Head(pruneLock))
        BY <1>1, <2>1 DEF InTurn
    <2>4. InTurn'
        BY <1>1, <2>1, <2>3 DEF InTurn, HasTurn, SessionTypeOK
    <2>5. ASSUME NEW o \in Sessions PROVE Sound(o)'
        <3>1. closing'[o] = IF o = s THEN "turn" ELSE closing[o]
            BY <1>1, <2>1 DEF SessionTypeOK
        <3> QED BY <1>1, <1>2, <2>1, <3>1 DEF Sound, SoundCall, ClosingStages, FinishStages, RunningSteps
    <2> QED BY <2>2, <2>4, <2>5 DEF SessionInv
<1>6. CASE ReadDirectory(s)
    <2>1. /\ closing[s] = "turn" /\ HasTurn(s) /\ closing' = [closing EXCEPT ![s] = "pruning"]
          /\ pruneLock' = pruneLock
          /\ record' = record /\ disk' = disk /\ queued' = queued /\ unwritable' = unwritable
        BY <1>6 DEF ReadDirectory
    <2>2. SessionTypeOK'
        BY <1>1, <2>1 DEF SessionTypeOK, ClosingStages
    <2>3. InTurn'
        BY <1>1, <2>1 DEF InTurn, HasTurn, SessionTypeOK
    <2>4. ASSUME NEW o \in Sessions PROVE Sound(o)'
        <3>1. closing'[o] = IF o = s THEN "pruning" ELSE closing[o]
            BY <1>1, <2>1 DEF SessionTypeOK
        <3> QED BY <1>1, <1>2, <2>1, <3>1 DEF Sound, SoundCall, ClosingStages, FinishStages, RunningSteps
    <2> QED BY <2>2, <2>3, <2>4 DEF SessionInv
<1>7. CASE Evict(s)
    <2>1. /\ closing[s] = "pruning" /\ closing' = closing /\ pruneLock' = pruneLock
          /\ record' = record /\ queued' = queued /\ unwritable' = unwritable
          /\ DOMAIN disk' = Sessions
        BY <1>1, <1>7 DEF Evict, SessionTypeOK
    <2>2. ASSUME NEW o \in Sessions PROVE Sound(o)'
        <3>1. closing[o] # "last"
            BY <1>3, <2>1
        <3> QED BY <1>1, <1>2, <2>1, <3>1 DEF Sound, SoundCall
    <2> QED BY <1>1, <2>1, <2>2 DEF SessionInv, SessionTypeOK, InTurn, HasTurn
<1>8. CASE DropTombstones(s)
    <2>1. /\ closing[s] = "pruning" /\ closing' = [closing EXCEPT ![s] = "last"] /\ pruneLock' = pruneLock
          /\ record' = [record EXCEPT ![s] = record[s]] /\ queued' = queued \cup {s}
          /\ unwritable' = unwritable /\ DOMAIN disk' = Sessions
        <3>1. DOMAIN disk' = Sessions
            BY <1>8 DEF DropTombstones
        <3> QED BY <1>8, <3>1, Zenon DEF DropTombstones, Capture
    <2>2. DOMAIN record' = Sessions /\ \A o \in Sessions : record'[o] = record[o]
        BY <1>1, <2>1 DEF SessionTypeOK
    <2>3. SessionTypeOK'
        BY <1>1, <2>1, <2>2 DEF SessionTypeOK, ClosingStages
    <2>4. InTurn'
        BY <1>1, <2>1 DEF InTurn, HasTurn, SessionTypeOK
    <2>5. ASSUME NEW o \in Sessions PROVE Sound(o)'
        <3>1. closing'[o] = (IF o = s THEN "last" ELSE closing[o]) /\ (o # s => closing[o] # "last")
            BY <1>1, <1>3, <2>1 DEF SessionTypeOK
        <3>2. s \in queued'
            BY <2>1
        <3> QED BY <1>1, <1>2, <2>1, <2>2, <3>1, <3>2 DEF Sound, SoundCall, ClosingStages, FinishStages, RunningSteps
    <2> QED BY <2>3, <2>4, <2>5 DEF SessionInv
<1>9. CASE PersistFails(s)
    <2>1. /\ queued' = queued \ {s} /\ unwritable' = unwritable \cup {s}
          /\ closing' = closing /\ pruneLock' = pruneLock /\ record' = record /\ disk' = disk
        BY <1>9 DEF PersistFails
    <2>2. ASSUME NEW o \in Sessions PROVE Sound(o)'
        <3>1. o # s => (o \in queued' <=> o \in queued) /\ (o \in unwritable' <=> o \in unwritable)
            BY <2>1
        <3>2. s \in unwritable'
            BY <2>1
        <3> QED BY <1>1, <1>2, <2>1, <3>1, <3>2 DEF Sound, SoundCall
    <2> QED BY <1>1, <2>1, <2>2 DEF SessionInv, SessionTypeOK, InTurn, HasTurn
<1>10. CASE Cleanup(s)
    <2>1. /\ closing[s] = "done" /\ disk' = [disk EXCEPT ![s] = NoArchive]
          /\ closing' = closing /\ pruneLock' = pruneLock /\ record' = record
          /\ queued' = queued /\ unwritable' = unwritable
        BY <1>10 DEF Cleanup
    <2>2. ASSUME NEW o \in Sessions PROVE Sound(o)'
        <3>1. o # s => disk'[o] = disk[o]
            BY <1>1, <2>1 DEF SessionTypeOK
        <3> QED BY <1>1, <1>2, <2>1, <3>1 DEF Sound, SoundCall
    <2> QED BY <1>1, <2>1, <2>2 DEF SessionInv, SessionTypeOK, InTurn, HasTurn
<1> QED BY <1>4, <1>5, <1>6, <1>7, <1>8, <1>9, <1>10 DEF ArchiveStep

\* A crash keeps the invariant.
LEMMA CrashKeeps ==
    ASSUME SessionInv, CrashSessions
    PROVE  SessionInv'
<1>1. SessionTypeOK /\ \A o \in Sessions : Sound(o)
    BY DEF SessionInv
<1> DEFINE lost == [NewSession EXCEPT !.step = "lost"]
<1>2. /\ record' = [s \in Sessions |-> NoArchive] /\ queued' = {} /\ unwritable' = {} /\ disk' = disk
      /\ closing' = [s \in Sessions |-> IF closing[s] = "done" THEN "done" ELSE "no"]
      /\ pruneLock' = <<>>
      /\ session' = [s \in Sessions |-> IF session[s].step \in {"idle", "done"} THEN session[s] ELSE lost]
    BY DEF CrashSessions, ArchiveCrash
<1>3. lost \in CallType /\ lost.step = "lost"
    BY DEF NewSession, NoOutcome, CallType, OutcomeType, Completeness
<1> HIDE DEF lost
<1>4. SessionTypeOK'
    BY <1>1, <1>2, <1>3 DEF SessionTypeOK, ClosingStages
<1>5. InTurn'
    BY <1>2 DEF InTurn
<1>6. ASSUME NEW o \in Sessions PROVE Sound(o)'
    <2>1. closing'[o] \in {"no", "done"} /\ (closing[o] = "no" => closing'[o] = "no")
        BY <1>2
    <2>2. session'[o] = IF session[o].step \in {"idle", "done"} THEN session[o] ELSE lost
        BY <1>2
    <2> QED BY <1>1, <1>3, <2>1, <2>2 DEF Sound, SoundCall, ClosingStages, FinishStages, RunningSteps
<1> QED BY <1>4, <1>5, <1>6 DEF SessionInv

\* Every step keeps the invariant.
LEMMA SessionKeeps ==
    ASSUME SessionInv, [SessionNext]_sessionVars
    PROVE  SessionInv'
<1>1. CASE UNCHANGED sessionVars
    BY <1>1 DEF sessionVars, archiveVars, SessionInv, SessionTypeOK, InTurn, HasTurn, Sound, SoundCall
<1> QED BY <1>1, CallSteps, ArchiveSteps, CrashKeeps DEF SessionNext

\* When a session reports (run, coding-session.ts), its archive is on disk and says what is
\* reported, however many sessions persist and prune beside it (finish and pruneArchives,
\* session-archive.ts).
THEOREM ReportsAreArchived == SessionSpec => ReportIsArchived
<1>1. ASSUME SessionInv, [SessionNext]_sessionVars
      PROVE  [\A s \in Sessions :
                 session[s].step = "finishing" /\ session'[s].step = "done" /\ s \notin unwritable =>
                   /\ Retained(s)
                   /\ disk[s].status = session[s].outcome.status
                   /\ disk[s].usage = session[s].outcome.usage
                   /\ disk[s].usageIs = session[s].outcome.is]_sessionVars
    <2>1. SUFFICES ASSUME SessionNext, NEW s \in Sessions,
                          session[s].step = "finishing", session'[s].step = "done", s \notin unwritable
                   PROVE  /\ Retained(s)
                          /\ disk[s].status = session[s].outcome.status
                          /\ disk[s].usage = session[s].outcome.usage
                          /\ disk[s].usageIs = session[s].outcome.is
        BY <1>1
    <2>2. session \in [Sessions -> CallType] /\ Sound(s)
        BY <1>1 DEF SessionInv, SessionTypeOK
    <2>3. closing[s] = "last" /\ s \notin queued
        <3>1. CASE CrashSessions
            BY <2>1, <2>2, <3>1 DEF CrashSessions, NewSession
        <3>2. CASE UNCHANGED session
            BY <2>1, <3>2
        <3>3. ASSUME NEW o \in Sessions, SessionStep(o) PROVE closing[s] = "last" /\ s \notin queued
            <4>1. CASE ReturnObservation(o)
                <5>1. o = s
                    BY <2>1, <2>2, <4>1 DEF ReturnObservation
                <5> QED BY <4>1, <5>1 DEF ReturnObservation, Finished, Release, Settled
            <4>2. CASE o # s /\ ~ReturnObservation(o)
                <5>1. session'[s] = session[s]
                    BY <2>2, <3>3, <4>2
                       DEF SessionStep, BeginSession, StartSession, PrepareSession, ItemCompleted, ArtifactUsage,
                           TurnCompleted, TurnFails, StreamEnds, ParseOutput, TransformOutput, EndsWith,
                           Throws, Ends, Goes
                <5> QED BY <2>1, <5>1
            <4>3. CASE o = s /\ ~ReturnObservation(o)
                BY <2>1, <3>3, <4>3
                   DEF SessionStep, BeginSession, StartSession, PrepareSession, ItemCompleted, ArtifactUsage,
                       TurnCompleted, TurnFails, StreamEnds, ParseOutput, TransformOutput, Step
            <4> QED BY <4>1, <4>2, <4>3
        <3> QED BY <2>1, <3>1, <3>2, <3>3 DEF SessionNext
    <2>4. disk[s] = record[s] /\ SaysOutcome(record[s], session[s].outcome)
        BY <2>1, <2>2, <2>3 DEF Sound, SoundCall
    <2>5. record[s] # NoArchive /\ record[s] # Tombstone
        BY <2>4, NoArchiveAssumption DEF SaysOutcome, ArchiveRecord, ArchiveStatuses, Tombstone
    <2> QED BY <2>4, <2>5 DEF Retained, SaysOutcome
<1> QED BY SessionInitially, SessionKeeps, <1>1, PTL DEF SessionSpec, ReportIsArchived

(***************************************************************************)
(* The OpenCode session.                                                   *)
(***************************************************************************)
EventKinds ==
    {"admitted", "started", "text", "item", "ended", "stop", "failed", "refused"}
EventType == [kind : EventKinds, step : Nat]
ServerType ==
    [alive : BOOLEAN, sent : Nat, admitted : BOOLEAN, step : Nat, open : BOOLEAN,
     text : Nat, stopped : BOOLEAN, ask : {"no", "asked", "rejected", "over"}]
Completions == {"none", "stop", "transport", "provider", "authority", "cancellation"}
AdapterType ==
    [stage : {"starting", "creating", "subscribing", "prompting", "waiting", "observing", "cleaning", "done"},
     aborted : BOOLEAN, admitted : BOOLEAN, step : Nat, hasText : BOOLEAN, text : Nat, usage : Nat,
     handler : {"stream", "callback", "stop", "failed", "ended"}, completion : Completions, idle : BOOLEAN,
     outcome : Completions \cup {"result", "unsettled"}, settling : {"no", "asked", "terminated", "killed"}]

OpenCodeTypeOK ==
    /\ opencode \in ServerType
    /\ events \in Seq(EventType)
    /\ oc \in AdapterType

\* The text the adapter holds for the step it is in is that step's.
TextIsOfStep(a) == a.hasText => a.text = a.step

\* Nothing but refusals follows the provider's last step.
OnlyRefusals(es) == \A i \in 1..Len(es) : es[i].kind = "refused"
StopIsLast(p, es) == \A i \in 1..Len(es) : es[i].kind = "stop" =>
    /\ p.stopped /\ es[i].step = p.step
    /\ \A j \in 1..Len(es) : j > i => es[j].kind = "refused"

\* The events lead from the steps the adapter has counted to those the provider has closed.
Closing(e) == IF e.kind \in {"ended", "stop", "failed"} THEN 1 ELSE 0
StepsClosed(p) == IF p.open THEN p.step - 1 ELSE p.step
Leads(f, n, es, m) ==
    /\ f[1] = n /\ f[Len(es) + 1] = m
    /\ \A i \in 1..Len(es) :
          f[i + 1] = f[i] + Closing(es[i]) /\ (Closing(es[i]) = 1 => es[i].step = f[i + 1])
LeadsTo(n, es, m) == \E f \in [1..Len(es) + 1 -> Nat] : Leads(f, n, es, m)

\* The adapter has seen the provider's last step, and has the whole of its turn.
SawStop(a) == a.handler = "stop" \/ a.completion = "stop"
OwnTurn(p, es, a) == p.stopped /\ a.text = p.step /\ a.usage = p.step /\ OnlyRefusals(es)

SoundServer(p) == (p.open => p.step > 0) /\ (p.stopped => ~p.open /\ p.admitted)
SoundAdapter(p, es, a) ==
    /\ TextIsOfStep(a)
    /\ SawStop(a) => OwnTurn(p, es, a)
    /\ a.stage = "observing" \/ a.outcome = "result" => a.completion = "stop"
    /\ a.stage = "done" /\ a.outcome = "result" => ~p.alive
    /\ a.handler \notin {"failed", "ended"} => LeadsTo(a.usage, es, StepsClosed(p))

OpenCodeInv ==
    /\ OpenCodeTypeOK
    /\ SoundServer(opencode)
    /\ StopIsLast(opencode, events)
    /\ SoundAdapter(opencode, events, oc)

\* An event at the end of the stream leads on from the last step.
LEMMA LeadsOn ==
    ASSUME NEW es \in Seq(EventType), NEW e \in EventType, NEW n, NEW m \in Nat, LeadsTo(n, es, m),
           Closing(e) = 1 => e.step = m + 1
    PROVE  LeadsTo(n, Append(es, e), m + Closing(e))
<1> PICK f \in [1..Len(es) + 1 -> Nat] : Leads(f, n, es, m)
    BY DEF LeadsTo
<1> DEFINE next == Append(es, e)
           last == m + Closing(e)
           g == [i \in 1..Len(next) + 1 |-> IF i = Len(next) + 1 THEN last ELSE f[i]]
<1>1. Len(next) = Len(es) + 1 /\ next[Len(es) + 1] = e /\ \A i \in 1..Len(es) : next[i] = es[i]
    OBVIOUS
<1>2. last \in Nat /\ Len(es) \in Nat
    BY DEF Closing
<1>3. g \in [1..Len(next) + 1 -> Nat]
    BY <1>1, <1>2
<1>4. g[1] = n /\ g[Len(next) + 1] = last /\ g[Len(es) + 1] = m /\ \A i \in 1..Len(es) + 1 : g[i] = f[i]
    BY <1>1, <1>2 DEF Leads
<1> HIDE DEF g, next
<1>5. ASSUME NEW i \in 1..Len(next)
      PROVE  g[i + 1] = g[i] + Closing(next[i]) /\ (Closing(next[i]) = 1 => next[i].step = g[i + 1])
  <2>1. CASE i = Len(es) + 1
      BY <1>1, <1>2, <1>4, <2>1
  <2>2. CASE i \in 1..Len(es)
    <3>1. /\ f[i + 1] = f[i] + Closing(es[i])
          /\ Closing(es[i]) = 1 => es[i].step = f[i + 1]
        BY <2>2 DEF Leads
    <3>2. i \in 1..Len(es) + 1 /\ i + 1 \in 1..Len(es) + 1
        BY <1>2, <2>2
    <3>3. g[i] = f[i] /\ g[i + 1] = f[i + 1] /\ next[i] = es[i]
        BY <1>1, <1>4, <2>2, <3>2
    <3> QED BY <3>1, <3>3
  <2> QED BY <1>1, <1>2, <2>1, <2>2
<1>6. Leads(g, n, next, last)
    BY <1>4, <1>5 DEF Leads
<1> QED BY <1>3, <1>6 DEF LeadsTo, next

\* The rest of the stream leads on from the event taken.
LEMMA LeadsFrom ==
    ASSUME NEW es \in Seq(EventType), es # <<>>, NEW n, NEW m, LeadsTo(n, es, m)
    PROVE  /\ LeadsTo(n + Closing(Head(es)), Tail(es), m)
           /\ Closing(Head(es)) = 1 => Head(es).step = n + 1
<1> PICK f \in [1..Len(es) + 1 -> Nat] : Leads(f, n, es, m)
    BY DEF LeadsTo
<1> DEFINE rest == Tail(es)
           g == [i \in 1..Len(rest) + 1 |-> f[i + 1]]
<1>1. /\ Len(es) \in Nat /\ Len(es) > 0 /\ Len(rest) = Len(es) - 1
      /\ \A i \in 1..Len(rest) : rest[i] = es[i + 1]
      /\ Head(es) = es[1]
    OBVIOUS
<1>2. g \in [1..Len(rest) + 1 -> Nat] /\ \A i \in 1..Len(rest) + 1 : g[i] = f[i + 1]
    BY <1>1
<1>3. f[2] = n + Closing(Head(es)) /\ (Closing(Head(es)) = 1 => Head(es).step = f[2])
    BY <1>1 DEF Leads
<1> HIDE DEF g, rest
<1>4. g[1] = n + Closing(Head(es)) /\ g[Len(rest) + 1] = m
    BY <1>1, <1>2, <1>3 DEF Leads
<1>5. ASSUME NEW i \in 1..Len(rest)
      PROVE  g[i + 1] = g[i] + Closing(rest[i]) /\ (Closing(rest[i]) = 1 => rest[i].step = g[i + 1])
  <2>1. i + 1 \in 1..Len(es) /\ rest[i] = es[i + 1] /\ g[i] = f[i + 1] /\ g[i + 1] = f[(i + 1) + 1]
      BY <1>1, <1>2
  <2> QED BY <2>1 DEF Leads
<1>6. LeadsTo(n + Closing(Head(es)), rest, m)
    BY <1>2, <1>4, <1>5 DEF Leads, LeadsTo
<1> QED BY <1>3, <1>6 DEF rest, Closing

\* What the provider emits: an event that closes the step it is in, and nothing after the last.
LEMMA EmitKeeps ==
    ASSUME OpenCodeInv, NEW e \in EventType, NEW change \in ServerType, Emits(e, change),
           SoundServer(change), change.alive = opencode.alive,
           opencode.stopped => e.kind = "refused" /\ change = opencode,
           e.kind = "stop" => change.stopped /\ e.step = change.step,
           StepsClosed(change) = StepsClosed(opencode) + Closing(e),
           Closing(e) = 1 => e.step = StepsClosed(change)
    PROVE  OpenCodeInv'
<1> DEFINE p == [change EXCEPT !.sent = @ + 1]
           es == Append(events, e)
<1>1. opencode' = p /\ events' = es /\ oc' = oc
    BY DEF Emits
<1>2. /\ p \in ServerType /\ p.step = change.step /\ p.open = change.open /\ p.stopped = change.stopped
      /\ p.admitted = change.admitted /\ p.alive = change.alive
    BY DEF ServerType
<1>3. /\ es \in Seq(EventType) /\ Len(es) = Len(events) + 1 /\ Len(events) \in Nat
      /\ \A i \in 1..Len(events) : es[i] = events[i]
      /\ es[Len(events) + 1] = e
    BY DEF OpenCodeInv, OpenCodeTypeOK
<1>4. StepsClosed(opencode) \in Nat /\ StepsClosed(p) = StepsClosed(change)
    BY <1>2 DEF OpenCodeInv, OpenCodeTypeOK, SoundServer, StepsClosed, ServerType
<1> HIDE DEF p
<1>5. LeadsTo(oc.usage, events, StepsClosed(opencode)) => LeadsTo(oc.usage, es, StepsClosed(p))
    BY <1>4, LeadsOn DEF OpenCodeInv, OpenCodeTypeOK
<1> HIDE DEF es
<1>6. StopIsLast(p, es)
  <2> SUFFICES ASSUME NEW i \in 1..Len(es), es[i].kind = "stop"
               PROVE  p.stopped /\ es[i].step = p.step /\ \A j \in 1..Len(es) : j > i => es[j].kind = "refused"
      BY DEF StopIsLast
  <2>1. CASE i = Len(events) + 1
      BY <1>2, <1>3, <2>1
  <2>2. CASE i \in 1..Len(events)
      BY <1>2, <1>3, <2>2 DEF OpenCodeInv, StopIsLast
  <2> QED BY <1>3, <2>1, <2>2
<1>7. SawStop(oc) => OwnTurn(p, es, oc)
  <2> SUFFICES ASSUME SawStop(oc) PROVE OwnTurn(p, es, oc)
      OBVIOUS
  <2>1. OwnTurn(opencode, events, oc)
      BY DEF OpenCodeInv, SoundAdapter
  <2> QED BY <1>2, <1>3, <2>1 DEF OwnTurn, OnlyRefusals
<1>8. SoundAdapter(p, es, oc) /\ SoundServer(p)
    BY <1>2, <1>5, <1>7 DEF OpenCodeInv, SoundAdapter, SoundServer
<1> QED BY <1>1, <1>2, <1>3, <1>6, <1>8 DEF OpenCodeInv, OpenCodeTypeOK

\* A step of the server that neither sends nor closes anything.
LEMMA ServerKeeps ==
    ASSUME OpenCodeInv, NEW p \in ServerType, opencode' = p, UNCHANGED <<events, oc>>,
           p.step = opencode.step, p.open = opencode.open, p.stopped = opencode.stopped,
           p.admitted = opencode.admitted, p.alive => opencode.alive
    PROVE  OpenCodeInv'
<1>1. StepsClosed(p) = StepsClosed(opencode) /\ SoundServer(p)
    BY DEF OpenCodeInv, SoundServer, StepsClosed
<1>2. StopIsLast(p, events)
    BY DEF OpenCodeInv, StopIsLast
<1>3. SoundAdapter(p, events, oc)
    BY <1>1 DEF OpenCodeInv, SoundAdapter, OwnTurn, ServerType, OpenCodeTypeOK
<1> QED BY <1>1, <1>2, <1>3 DEF OpenCodeInv, OpenCodeTypeOK

\* A step of the adapter on nothing but its own state.
LEMMA AdapterKeeps ==
    ASSUME OpenCodeInv, NEW a \in AdapterType, oc' = a, UNCHANGED <<opencode, events>>,
           a.hasText = oc.hasText, a.text = oc.text, a.step = oc.step, a.usage = oc.usage,
           a.handler \notin {"failed", "ended"} => oc.handler \notin {"failed", "ended"},
           SawStop(a) => SawStop(oc),
           a.stage = "observing" \/ a.outcome = "result" => a.completion = "stop",
           a.stage = "done" /\ a.outcome = "result" => ~opencode.alive
    PROVE  OpenCodeInv'
<1>1. SoundAdapter(opencode, events, a)
    BY DEF OpenCodeInv, SoundAdapter, TextIsOfStep, OwnTurn
<1> QED BY <1>1 DEF OpenCodeInv, OpenCodeTypeOK

\* What the server sends leads on from what it sent.
LEMMA ProviderSends ==
    ASSUME OpenCodeInv, ProviderAdmits \/ ProviderSteps \/ ProviderErrs
    PROVE  OpenCodeInv'
<1> DEFINE p == opencode
<1>0. p \in ServerType /\ SoundServer(p)
    BY DEF OpenCodeInv, OpenCodeTypeOK
<1>1. CASE ProviderAdmits
  <2> DEFINE q == [p EXCEPT !.admitted = TRUE]
             e == Event("admitted", 0)
  <2>1. /\ q \in ServerType /\ q.step = p.step /\ q.open = p.open /\ q.stopped = p.stopped /\ q.alive = p.alive
        /\ q.admitted = TRUE /\ ~p.admitted
      BY <1>0, <1>1 DEF ServerType, ProviderAdmits
  <2>2. e \in EventType /\ e.kind = "admitted" /\ Closing(e) = 0
      BY DEF Event, EventType, EventKinds, Closing
  <2>3. Emits(e, q)
      BY <1>1 DEF ProviderAdmits
  <2> HIDE DEF q, e
  <2>4. SoundServer(q) /\ StepsClosed(q) = StepsClosed(p) /\ ~p.stopped /\ StepsClosed(p) \in Nat
      BY <1>0, <2>1 DEF SoundServer, StepsClosed, ServerType
  <2> QED BY <2>1, <2>2, <2>3, <2>4, EmitKeeps
<1>2. CASE ProviderSteps
  <2>0. p.admitted /\ ~p.stopped
      BY <1>2 DEF ProviderSteps
  <2>1. CASE ~p.open /\ Emits(Event("started", p.step + 1), [p EXCEPT !.step = p.step + 1, !.open = TRUE])
    <3> DEFINE q == [p EXCEPT !.step = p.step + 1, !.open = TRUE]
               e == Event("started", p.step + 1)
    <3>0. p.step \in Nat /\ p.step + 1 \in Nat
        BY <1>0 DEF ServerType
    <3>5. q \in ServerType
        BY <1>0, <3>0 DEF ServerType
    <3>1. /\ q \in ServerType /\ q.step = p.step + 1 /\ q.open /\ q.stopped = p.stopped /\ q.alive = p.alive
          /\ q.admitted = p.admitted
        BY <1>0, <3>5 DEF ServerType
    <3>2. e \in EventType /\ e.kind = "started" /\ Closing(e) = 0
        BY <1>0 DEF Event, EventType, EventKinds, Closing, ServerType
    <3> HIDE DEF q, e
    <3>3. SoundServer(q) /\ StepsClosed(q) = StepsClosed(p) /\ StepsClosed(p) \in Nat
        BY <1>0, <2>0, <2>1, <3>1 DEF SoundServer, StepsClosed, ServerType
    <3>4. Emits(e, q)
        BY <2>1 DEF e, q
    <3> QED BY <2>0, <3>1, <3>2, <3>3, <3>4, EmitKeeps
  <2>2. ASSUME NEW kind \in {"text", "item"}, NEW q,
               q = [p EXCEPT !.text = p.step] \/ q = p, Emits(Event(kind, p.step), q), p.open
        PROVE  OpenCodeInv'
    <3> DEFINE e == Event(kind, p.step)
    <3>1. /\ q \in ServerType /\ q.step = p.step /\ q.open /\ q.stopped = p.stopped /\ q.alive = p.alive
          /\ q.admitted = p.admitted
        BY <1>0, <2>2 DEF ServerType
    <3>2. e \in EventType /\ e.kind = kind /\ Closing(e) = 0
        BY <1>0, <2>2 DEF Event, EventType, EventKinds, Closing, ServerType
    <3> HIDE DEF e
    <3>3. SoundServer(q) /\ StepsClosed(q) = StepsClosed(p) /\ StepsClosed(p) \in Nat
        BY <1>0, <2>0, <2>2, <3>1 DEF SoundServer, StepsClosed, ServerType
    <3>4. Emits(e, q)
        BY <2>2 DEF e
    <3> QED BY <2>0, <3>1, <3>2, <3>3, <3>4, EmitKeeps
  <2>3. ASSUME NEW kind \in {"ended", "stop", "failed"}, NEW q, p.open,
               \/ kind = "ended" /\ q = [p EXCEPT !.open = FALSE]
               \/ q = [p EXCEPT !.open = FALSE, !.stopped = TRUE],
               Emits(Event(kind, p.step), q)
        PROVE  OpenCodeInv'
    <3> DEFINE e == Event(kind, p.step)
    <3>1. /\ q \in ServerType /\ q.step = p.step /\ ~q.open /\ q.alive = p.alive
          /\ q.admitted = p.admitted /\ (kind = "stop" => q.stopped)
        BY <1>0, <2>3 DEF ServerType
    <3>2. e \in EventType /\ e.kind = kind /\ e.step = p.step /\ Closing(e) = 1
        BY <1>0, <2>3 DEF Event, EventType, EventKinds, Closing, ServerType
    <3> HIDE DEF e
    <3>3. /\ SoundServer(q) /\ StepsClosed(q) = StepsClosed(p) + Closing(e) /\ e.step = StepsClosed(q)
          /\ StepsClosed(p) \in Nat
        BY <1>0, <2>0, <2>3, <3>1, <3>2 DEF SoundServer, StepsClosed, ServerType
    <3>4. Emits(e, q)
        BY <2>3 DEF e
    <3> QED BY <2>0, <3>1, <3>2, <3>3, <3>4, EmitKeeps
  <2> QED BY <1>2, <2>1, <2>2, <2>3 DEF ProviderSteps
<1>3. CASE ProviderErrs
  <2> DEFINE e == Event("refused", 0)
  <2>1. e \in EventType /\ e.kind = "refused" /\ Closing(e) = 0
      BY DEF Event, EventType, EventKinds, Closing
  <2>2. StepsClosed(p) \in Nat
      BY <1>0 DEF SoundServer, StepsClosed, ServerType
  <2>3. Emits(e, p)
      BY <1>3 DEF ProviderErrs
  <2> HIDE DEF e
  <2> QED BY <1>0, <2>1, <2>2, <2>3, EmitKeeps
<1> QED BY <1>1, <1>2, <1>3

\* What is left of the stream once its first event is taken.
LEMMA RestOfStream ==
    ASSUME OpenCodeInv, events # <<>>
    PROVE  /\ Tail(events) \in Seq(EventType) /\ Head(events) \in EventType
           /\ StopIsLast(opencode, Tail(events))
           /\ OnlyRefusals(events) => Head(events).kind = "refused" /\ OnlyRefusals(Tail(events))
           /\ Head(events).kind = "stop" =>
                 opencode.stopped /\ Head(events).step = opencode.step /\ OnlyRefusals(Tail(events))
<1> DEFINE rest == Tail(events)
<1>1. /\ rest \in Seq(EventType) /\ Head(events) = events[1] /\ events[1] \in EventType
      /\ Len(events) \in Nat /\ Len(events) > 0 /\ Len(rest) = Len(events) - 1
      /\ \A i \in 1..Len(rest) : rest[i] = events[i + 1] /\ i + 1 \in 1..Len(events)
    BY DEF OpenCodeInv, OpenCodeTypeOK
<1> HIDE DEF rest
<1>2. StopIsLast(opencode, rest)
  <2> SUFFICES ASSUME NEW i \in 1..Len(rest), rest[i].kind = "stop"
               PROVE  /\ opencode.stopped /\ rest[i].step = opencode.step
                      /\ \A j \in 1..Len(rest) : j > i => rest[j].kind = "refused"
      BY DEF StopIsLast
  <2>1. events[i + 1].kind = "stop" /\ i + 1 \in 1..Len(events) /\ rest[i] = events[i + 1]
      BY <1>1
  <2>2. /\ opencode.stopped /\ events[i + 1].step = opencode.step
        /\ \A j \in 1..Len(events) : j > i + 1 => events[j].kind = "refused"
      BY <2>1 DEF OpenCodeInv, StopIsLast
  <2> QED BY <1>1, <2>1, <2>2
<1>3. OnlyRefusals(events) => events[1].kind = "refused" /\ OnlyRefusals(rest)
    BY <1>1 DEF OnlyRefusals
<1>4. events[1].kind = "stop" =>
          opencode.stopped /\ events[1].step = opencode.step /\ OnlyRefusals(rest)
  <2> SUFFICES ASSUME events[1].kind = "stop"
               PROVE  opencode.stopped /\ events[1].step = opencode.step /\ OnlyRefusals(rest)
      OBVIOUS
  <2>1. /\ opencode.stopped /\ events[1].step = opencode.step
        /\ \A j \in 1..Len(events) : j > 1 => events[j].kind = "refused"
      BY <1>1 DEF OpenCodeInv, StopIsLast
  <2> QED BY <1>1, <2>1 DEF OnlyRefusals
<1> QED BY <1>1, <1>2, <1>3, <1>4 DEF rest

\* The adapter takes an event of the stream.
LEMMA TakesEvent ==
    ASSUME OpenCodeInv, ProcessEvent
    PROVE  OpenCodeInv'
<1> DEFINE e == Head(events)
           rest == Tail(events)
<1>0. oc \in AdapterType /\ events # <<>> /\ oc.handler = "stream" /\ Streaming /\ UNCHANGED opencode /\ events' = rest
    BY DEF OpenCodeInv, OpenCodeTypeOK, ProcessEvent
<1>1. SoundAdapter(opencode, events, oc)
    BY DEF OpenCodeInv
<1>2. /\ e \in EventType /\ rest \in Seq(EventType) /\ StopIsLast(opencode, rest)
      /\ OnlyRefusals(events) => e.kind = "refused" /\ OnlyRefusals(rest)
      /\ e.kind = "stop" => opencode.stopped /\ e.step = opencode.step /\ OnlyRefusals(rest)
    BY <1>0, RestOfStream
<1>3. /\ LeadsTo(oc.usage + Closing(e), rest, StepsClosed(opencode))
      /\ Closing(e) = 1 => e.step = oc.usage + 1
  <2>1. LeadsTo(oc.usage, events, StepsClosed(opencode))
      BY <1>0, <1>1 DEF SoundAdapter
  <2> QED BY <1>0, <2>1, LeadsFrom DEF OpenCodeInv, OpenCodeTypeOK
<1>4. oc.stage \in {"prompting", "waiting", "observing"}
    BY <1>0 DEF Streaming, Stage
<1> HIDE DEF e, rest
<1> DEFINE a == oc'
<1>5. a \in AdapterType
  <2>1. CASE OwnEvent(e)
    <3>1. oc' = Handle(e)
        BY <2>1 DEF ProcessEvent, e
    <3>2. oc.usage + 1 \in Nat /\ e.step \in Nat /\ e.kind \in EventKinds
        BY <1>0, <1>2 DEF AdapterType, EventType
    <3>3. Completes(oc, "transport") \in AdapterType
        BY <1>0 DEF AdapterType, Completes, Completions
    <3> QED BY <1>0, <3>1, <3>2, <3>3 DEF AdapterType, Handle
  <2>2. CASE ~OwnEvent(e)
    <3>1. Completes(oc, StreamFailure) \in AdapterType
        BY <1>0 DEF AdapterType, Completes, Completions, StreamFailure
    <3> QED BY <2>2, <3>1 DEF AdapterType, ProcessEvent, e
  <2> QED BY <2>1, <2>2
<1>s. SUFFICES SoundAdapter(opencode, rest, a)
  <2>1. /\ opencode' = opencode /\ opencode \in ServerType /\ SoundServer(opencode)
      BY <1>0 DEF OpenCodeInv, OpenCodeTypeOK
  <2> QED BY <1>0, <1>2, <1>5, <2>1 DEF a, OpenCodeInv, OpenCodeTypeOK
<1> HIDE DEF a
<1>6. CASE ~OwnEvent(e)
  <2>1. /\ a.handler = "ended" /\ a.stage = oc.stage /\ a.outcome = oc.outcome
        /\ a.text = oc.text /\ a.step = oc.step /\ a.usage = oc.usage /\ a.hasText = oc.hasText
        /\ a.completion = IF oc.completion = "none" THEN StreamFailure ELSE oc.completion
      BY <1>0, <1>6 DEF a, ProcessEvent, e, Completes, AdapterType
  <2>2. StreamFailure # "stop"
      BY DEF StreamFailure
  <2>3. SawStop(a) => SawStop(oc) /\ a.completion = oc.completion
      BY <2>1, <2>2 DEF SawStop
  <2>4. SawStop(a) => OwnTurn(opencode, rest, a)
      BY <1>1, <1>2, <2>1, <2>3 DEF SoundAdapter, OwnTurn
  <2>5. oc.completion = "stop" => a.completion = "stop"
      BY <2>1
  <2> QED BY <1>1, <1>4, <2>1, <2>4, <2>5 DEF SoundAdapter, TextIsOfStep
<1>7. CASE OwnEvent(e)
  <2>1. e.kind # "refused" /\ (e.kind \in {"text", "ended", "stop"} => e.step = oc.step)
      BY <1>7 DEF OwnEvent
  <2>2. oc.completion # "stop"
      BY <1>1, <1>2, <2>1 DEF SoundAdapter, SawStop, OwnTurn
  <2>3. a = Handle(e) /\ e.kind \in EventKinds \ {"refused"} /\ oc.usage \in Nat
      BY <1>0, <1>2, <1>7, <2>1 DEF a, ProcessEvent, e, EventType, AdapterType
  <2>4. oc.stage # "observing" /\ oc.outcome # "result"
      BY <1>1, <2>2 DEF SoundAdapter
  <2>5. CASE e.kind = "stop" /\ ~oc.hasText
    <3>1. a = [Completes(oc, "transport") EXCEPT !.handler = "ended"]
        BY <2>3, <2>5 DEF Handle
    <3>2. /\ a.handler = "ended" /\ a.stage = oc.stage /\ a.outcome = oc.outcome
          /\ a.text = oc.text /\ a.step = oc.step /\ a.hasText = oc.hasText
          /\ a.completion # "stop"
        BY <1>0, <2>2, <3>1 DEF Completes, AdapterType
    <3> QED BY <1>1, <2>4, <3>2 DEF SoundAdapter, TextIsOfStep, SawStop
  <2>6. CASE e.kind \in {"ended", "stop"} /\ (e.kind = "stop" => oc.hasText)
    <3>1. a = [oc EXCEPT !.usage = @ + 1, !.handler = IF e.kind = "stop" THEN "stop" ELSE "callback"]
        BY <2>3, <2>6 DEF Handle
    <3>2. /\ a.handler = IF e.kind = "stop" THEN "stop" ELSE "callback"
          /\ a.stage = oc.stage /\ a.outcome = oc.outcome
          /\ a.text = oc.text /\ a.step = oc.step /\ a.hasText = oc.hasText
          /\ a.completion = oc.completion /\ a.usage = oc.usage + 1
        BY <1>0, <3>1 DEF AdapterType
    <3>3. Closing(e) = 1 /\ e.step = oc.usage + 1 /\ e.step = oc.step
        BY <1>3, <2>1, <2>6 DEF Closing
    <3>4. LeadsTo(a.usage, rest, StepsClosed(opencode))
        BY <1>3, <3>2, <3>3
    <3>5. SawStop(a) => OwnTurn(opencode, rest, a)
      <4>1. SawStop(a) => e.kind = "stop"
          BY <2>2, <3>2 DEF SawStop
      <4>2. oc.hasText => oc.text = oc.step
          BY <1>1 DEF SoundAdapter, TextIsOfStep
      <4> QED BY <1>2, <2>6, <3>2, <3>3, <4>1, <4>2 DEF OwnTurn
    <3> QED BY <1>1, <2>4, <3>2, <3>4, <3>5 DEF SoundAdapter, TextIsOfStep
  <2>7. CASE e.kind \in {"admitted", "started", "text", "item", "failed"}
    <3>1. /\ a.handler \in {"stream", "callback", "failed"} /\ (e.kind = "failed" => a.handler = "failed")
          /\ a.stage = oc.stage /\ a.outcome = oc.outcome
          /\ a.completion = oc.completion /\ a.usage = oc.usage
          /\ \/ a.text = oc.text /\ a.step = oc.step /\ a.hasText = oc.hasText
             \/ a.hasText = FALSE
             \/ a.text = e.step /\ a.step = oc.step /\ e.step = oc.step
      <4>1. CASE e.kind = "admitted"
          BY <1>0, <2>3, <4>1 DEF Handle, AdapterType
      <4>2. CASE e.kind = "started"
          BY <1>0, <2>3, <4>2 DEF Handle, AdapterType
      <4>3. CASE e.kind = "text"
          BY <1>0, <2>1, <2>3, <4>3 DEF Handle, AdapterType
      <4>4. CASE e.kind \in {"item", "failed"}
          BY <1>0, <2>3, <4>4 DEF Handle, AdapterType
      <4> QED BY <2>7, <4>1, <4>2, <4>3, <4>4
    <3>2. TextIsOfStep(a)
        BY <1>1, <3>1 DEF SoundAdapter, TextIsOfStep
    <3>3. e.kind # "failed" => LeadsTo(a.usage, rest, StepsClosed(opencode))
      <4>1. e.kind # "failed" => Closing(e) = 0
          BY <2>7 DEF Closing
      <4> QED BY <1>3, <2>3, <3>1, <4>1
    <3>4. ~SawStop(a)
        BY <2>2, <3>1 DEF SawStop
    <3> QED BY <2>4, <3>1, <3>2, <3>3, <3>4 DEF SoundAdapter
  <2> QED BY <2>3, <2>5, <2>6, <2>7 DEF EventKinds
<1> QED BY <1>6, <1>7
\* An end of the turn that is no success changes the completion only.
LEMMA CompletesIsTyped ==
    ASSUME NEW a \in AdapterType, NEW completion \in Completions \ {"none", "stop"}
    PROVE  /\ Completes(a, completion) \in AdapterType
           /\ \A f \in {"stage", "aborted", "admitted", "step", "hasText", "text", "usage", "handler",
                        "idle", "outcome", "settling"} : Completes(a, completion)[f] = a[f]
           /\ Completes(a, completion).completion = "stop" <=> a.completion = "stop"
BY DEF AdapterType, Completes, Completions

\* The handler of events is over, or the first end of the turn that is no success is known.
LEMMA AdapterEnds ==
    ASSUME OpenCodeInv, NEW completion \in Completions \ {"none", "stop"},
           NEW handler \in {oc.handler, "ended"},
           oc' = [Completes(oc, completion) EXCEPT !.handler = handler], UNCHANGED <<opencode, events>>
    PROVE  OpenCodeInv'
<1> DEFINE a == [Completes(oc, completion) EXCEPT !.handler = handler]
           b == Completes(oc, completion)
<1>0. oc \in AdapterType /\ SoundAdapter(opencode, events, oc)
    BY DEF OpenCodeInv, OpenCodeTypeOK
<1>1. /\ b \in AdapterType /\ b.stage = oc.stage /\ b.outcome = oc.outcome /\ b.step = oc.step
      /\ b.hasText = oc.hasText /\ b.text = oc.text /\ b.usage = oc.usage /\ b.handler = oc.handler
      /\ b.completion = "stop" <=> oc.completion = "stop"
    BY <1>0, CompletesIsTyped
<1> HIDE DEF b
<1>2. /\ a \in AdapterType /\ a.stage = oc.stage /\ a.outcome = oc.outcome /\ a.step = oc.step
      /\ a.hasText = oc.hasText /\ a.text = oc.text /\ a.usage = oc.usage /\ a.handler = handler
      /\ a.completion = b.completion
    BY <1>0, <1>1 DEF AdapterType, b
<1>3. oc' = a
    OBVIOUS
<1> HIDE DEF a
<1> QED BY <1>0, <1>1, <1>2, <1>3, AdapterKeeps DEF SawStop, SoundAdapter

\* The end of a callback keeps the invariant.
LEMMA CallbackEnds ==
    ASSUME OpenCodeInv, EventCallbackReturns \/ EventCallbackThrows
    PROVE  OpenCodeInv'
<1>0. oc \in AdapterType /\ SoundAdapter(opencode, events, oc)
    BY DEF OpenCodeInv, OpenCodeTypeOK
<1>1. CASE EventCallbackThrows
  <2>1. oc' = [Completes(oc, IF oc.aborted THEN "cancellation" ELSE "provider") EXCEPT !.handler = "ended"]
      BY <1>1 DEF EventCallbackThrows
  <2>2. (IF oc.aborted THEN "cancellation" ELSE "provider") \in Completions \ {"none", "stop"}
      BY DEF Completions
  <2>3. UNCHANGED <<opencode, events>>
      BY <1>1 DEF EventCallbackThrows
  <2> QED BY <2>1, <2>2, <2>3, AdapterEnds
<1>2. CASE EventCallbackReturns /\ oc.handler = "failed"
  <2>1. oc' = [Completes(oc, "provider") EXCEPT !.handler = "ended"] /\ UNCHANGED <<opencode, events>>
      BY <1>2 DEF EventCallbackReturns
  <2> QED BY <2>1, AdapterEnds DEF Completions
<1>3. CASE EventCallbackReturns /\ oc.handler = "callback"
  <2> DEFINE a == [oc EXCEPT !.handler = "stream"]
  <2>1. /\ a \in AdapterType /\ a.stage = oc.stage /\ a.outcome = oc.outcome /\ a.step = oc.step
        /\ a.hasText = oc.hasText /\ a.text = oc.text /\ a.usage = oc.usage /\ a.handler = "stream"
        /\ a.completion = oc.completion
      BY <1>0 DEF AdapterType
  <2>2. oc' = a /\ UNCHANGED <<opencode, events>>
      BY <1>3 DEF EventCallbackReturns
  <2> HIDE DEF a
  <2> QED BY <1>0, <1>3, <2>1, <2>2, AdapterKeeps DEF SawStop, SoundAdapter
<1>4. CASE EventCallbackReturns /\ oc.handler = "stop"
  <2> DEFINE a == [Completes(oc, "stop") EXCEPT !.handler = "stream"]
  <2>1. /\ a \in AdapterType /\ a.stage = oc.stage /\ a.outcome = oc.outcome /\ a.step = oc.step
        /\ a.hasText = oc.hasText /\ a.text = oc.text /\ a.usage = oc.usage /\ a.handler = "stream"
        /\ a.completion = IF oc.completion = "none" THEN "stop" ELSE oc.completion
      BY <1>0 DEF AdapterType, Completes, Completions
  <2>2. oc' = a /\ UNCHANGED <<opencode, events>>
      BY <1>4 DEF EventCallbackReturns
  <2> HIDE DEF a
  <2>3. oc.completion = "stop" => a.completion = "stop"
      BY <2>1
  <2> QED BY <1>0, <1>4, <2>1, <2>2, <2>3, AdapterKeeps DEF SawStop, SoundAdapter
<1> QED BY <1>1, <1>2, <1>3, <1>4 DEF EventCallbackReturns

\* The run goes on, or is left, and nothing of the turn is touched.
SameTurn(a) ==
    /\ a.hasText = oc.hasText /\ a.text = oc.text /\ a.step = oc.step /\ a.usage = oc.usage
    /\ a.handler = oc.handler /\ a.completion = oc.completion

\* A step of the adapter that leaves the turn alone keeps the invariant.
LEMMA RunGoesOn ==
    ASSUME OpenCodeInv, NEW a \in AdapterType, oc' = a, UNCHANGED <<opencode, events>>, SameTurn(a),
           a.stage = "observing" \/ a.outcome = "result" => oc.completion = "stop",
           a.stage = "done" /\ a.outcome = "result" => ~opencode.alive
    PROVE  OpenCodeInv'
BY AdapterKeeps DEF SameTurn, SawStop

\* Every step of the adapter's own keeps the invariant.
LEMMA RunSteps ==
    ASSUME OpenCodeInv,
           \/ StartServer \/ CreateSession \/ Subscribe \/ PromptAccepted \/ CallFails
           \/ SessionIdle \/ TurnSucceeds \/ SessionFails \/ ResultReady \/ SessionAborted \/ SettleServer
    PROVE  OpenCodeInv'
<1>0. oc \in AdapterType /\ SoundAdapter(opencode, events, oc)
    BY DEF OpenCodeInv, OpenCodeTypeOK
<1>1. oc.stage = "observing" \/ oc.outcome = "result" => oc.completion = "stop"
    BY <1>0 DEF SoundAdapter
<1>2. oc.stage = "done" /\ oc.outcome = "result" => ~opencode.alive
    BY <1>0 DEF SoundAdapter
<1>3. ASSUME NEW stage \in {"creating", "subscribing", "prompting", "waiting", "observing"},
             oc' = [oc EXCEPT !.stage = stage], UNCHANGED <<opencode, events>>,
             stage = "observing" => oc.completion = "stop"
      PROVE  OpenCodeInv'
  <2> DEFINE a == [oc EXCEPT !.stage = stage]
  <2>1. a \in AdapterType /\ SameTurn(a) /\ a.stage = stage /\ a.outcome = oc.outcome /\ oc' = a
      BY <1>0, <1>3 DEF AdapterType, SameTurn
  <2> HIDE DEF a
  <2> QED BY <1>1, <1>3, <2>1, RunGoesOn
<1>4. CASE StartServer \/ CreateSession \/ Subscribe \/ PromptAccepted
    BY <1>3, <1>4 DEF StartServer, CreateSession, Subscribe, PromptAccepted, Advance
<1>5. CASE TurnSucceeds
    BY <1>3, <1>5 DEF TurnSucceeds, TurnIsOver
<1>6. ASSUME NEW outcome \in Completions \cup {"result"}, Cleanup_(outcome),
             outcome = "result" => oc.completion = "stop"
      PROVE  OpenCodeInv'
  <2> DEFINE a == [oc EXCEPT !.stage = "cleaning", !.outcome = outcome, !.settling = "asked"]
  <2>1. oc' = a /\ UNCHANGED <<opencode, events>>
      BY <1>6 DEF Cleanup_
  <2>2. a \in AdapterType /\ SameTurn(a) /\ a.stage = "cleaning" /\ a.outcome = outcome
      BY <1>0 DEF AdapterType, SameTurn
  <2> HIDE DEF a
  <2> QED BY <1>6, <2>1, <2>2, RunGoesOn
<1>7. CASE CallFails
    BY <1>6, <1>7 DEF CallFails, Completions
<1>8. CASE SessionFails
  <2>1. oc.completion \in Completions /\ oc.completion # "result"
      BY <1>0 DEF AdapterType, Completions
  <2> QED BY <1>6, <1>8, <2>1 DEF SessionFails
<1>9. CASE ResultReady
  <2>1. oc.completion = "stop"
      BY <1>1, <1>9 DEF ResultReady, Stage
  <2> QED BY <1>6, <1>9, <2>1 DEF ResultReady, Completions
<1>10. CASE SessionIdle \/ SessionAborted
  <2> PICK a \in AdapterType : /\ oc' = a /\ SameTurn(a) /\ a.stage = oc.stage /\ a.outcome = oc.outcome
                               /\ UNCHANGED <<opencode, events>>
    <3>1. /\ [oc EXCEPT !.idle = TRUE] \in AdapterType /\ SameTurn([oc EXCEPT !.idle = TRUE])
          /\ [oc EXCEPT !.idle = TRUE].stage = oc.stage /\ [oc EXCEPT !.idle = TRUE].outcome = oc.outcome
        BY <1>0 DEF AdapterType, SameTurn
    <3>2. /\ [oc EXCEPT !.aborted = TRUE] \in AdapterType /\ SameTurn([oc EXCEPT !.aborted = TRUE])
          /\ [oc EXCEPT !.aborted = TRUE].stage = oc.stage /\ [oc EXCEPT !.aborted = TRUE].outcome = oc.outcome
        BY <1>0 DEF AdapterType, SameTurn
    <3> QED BY <1>10, <3>1, <3>2 DEF SessionIdle, SessionAborted
  <2> QED BY <1>1, <1>2, RunGoesOn
<1>11. CASE SettleServer
  <2> PICK a : /\ oc' = a /\ a \in AdapterType /\ SameTurn(a)
               /\ \/ a.stage = oc.stage /\ a.outcome = oc.outcome
                  \/ a.stage = "done" /\ a.outcome # "result"
                  \/ a.stage = "done" /\ a.outcome = oc.outcome /\ ~opencode.alive
    <3>1. ASSUME NEW settling \in {"terminated", "killed"}
          PROVE  LET a == [oc EXCEPT !.settling = settling]
                 IN  a \in AdapterType /\ SameTurn(a) /\ a.stage = oc.stage /\ a.outcome = oc.outcome
        BY <1>0 DEF AdapterType, SameTurn
    <3>2. LET a == [oc EXCEPT !.stage = "done", !.outcome = IF @ = "result" THEN "unsettled" ELSE @]
          IN  a \in AdapterType /\ SameTurn(a) /\ a.stage = "done" /\ a.outcome # "result"
        BY <1>0 DEF AdapterType, SameTurn
    <3>3. LET a == [oc EXCEPT !.stage = "done"]
          IN  a \in AdapterType /\ SameTurn(a) /\ a.stage = "done" /\ a.outcome = oc.outcome
        BY <1>0 DEF AdapterType, SameTurn
    <3> QED BY <1>11, <3>1, <3>2, <3>3 DEF SettleServer
  <2>1. UNCHANGED <<opencode, events>>
      BY <1>11 DEF SettleServer
  <2> QED BY <1>1, <1>2, <2>1, RunGoesOn
<1> QED BY <1>4, <1>5, <1>7, <1>8, <1>9, <1>10, <1>11

\* Every step keeps the invariant.
LEMMA OpenCodeStep == ASSUME OpenCodeInv, OpenCodeNext PROVE OpenCodeInv'
<1>0. opencode \in ServerType /\ oc \in AdapterType
    BY DEF OpenCodeInv, OpenCodeTypeOK
<1>1. CASE ProviderAsks \/ ProviderDies \/ RejectPermission
  <2>1. PICK ask \in {"no", "asked", "rejected", "over"}, alive \in BOOLEAN :
            /\ opencode' = [opencode EXCEPT !.ask = ask, !.alive = alive]
            /\ UNCHANGED <<events, oc>> /\ (alive => opencode.alive)
    <3>1. opencode.ask \in {"no", "asked", "rejected", "over"} /\ opencode.alive \in BOOLEAN
        BY <1>0 DEF ServerType
    <3>2. opencode = [opencode EXCEPT !.ask = opencode.ask, !.alive = opencode.alive]
        BY <1>0 DEF ServerType
    <3>3. CASE ProviderAsks
        BY <1>0, <3>1, <3>3 DEF ProviderAsks, ServerType
    <3>4. CASE ProviderDies
        BY <1>0, <3>1, <3>4 DEF ProviderDies, ServerType
    <3>5. CASE RejectPermission
        BY <1>0, <3>1, <3>5 DEF RejectPermission, ServerType
    <3> QED BY <1>1, <3>3, <3>4, <3>5
  <2> DEFINE p == [opencode EXCEPT !.ask = ask, !.alive = alive]
  <2>2. /\ p \in ServerType /\ p.step = opencode.step /\ p.open = opencode.open
        /\ p.stopped = opencode.stopped /\ p.admitted = opencode.admitted /\ p.alive = alive
      BY <1>0 DEF ServerType
  <2> HIDE DEF p
  <2>3. opencode' = p
      BY <2>1 DEF p
  <2> QED BY <2>1, <2>2, <2>3, ServerKeeps
<1>2. CASE EventStreamEnds \/ PermissionStreamEnds
  <2>1. StreamFailure \in Completions \ {"none", "stop"}
      BY DEF StreamFailure, Completions
  <2>2. CASE EventStreamEnds
      BY <2>1, <2>2, AdapterEnds DEF EventStreamEnds
  <2>3. CASE PermissionStreamEnds
    <3>1. Completes(oc, StreamFailure) = [Completes(oc, StreamFailure) EXCEPT !.handler = oc.handler]
        BY <1>0 DEF Completes, AdapterType
    <3> QED BY <2>1, <2>3, <3>1, AdapterEnds DEF PermissionStreamEnds
  <2> QED BY <1>2, <2>2, <2>3
<1>3. CASE PermissionEndsSession
  <2> DEFINE p == [opencode EXCEPT !.ask = "over"]
             a == Completes(oc, "authority")
  <2>1. /\ p \in ServerType /\ p.step = opencode.step /\ p.open = opencode.open
        /\ p.stopped = opencode.stopped /\ p.admitted = opencode.admitted /\ p.alive = opencode.alive
      BY <1>0 DEF ServerType
  <2>2. opencode' = p /\ oc' = a /\ events' = events
      BY <1>3 DEF PermissionEndsSession
  <2>3. /\ a \in AdapterType /\ a.stage = oc.stage /\ a.outcome = oc.outcome /\ a.step = oc.step
        /\ a.hasText = oc.hasText /\ a.text = oc.text /\ a.usage = oc.usage /\ a.handler = oc.handler
        /\ a.completion = "stop" <=> oc.completion = "stop"
      BY <1>0, CompletesIsTyped DEF Completions
  <2> HIDE DEF p, a
  <2>4. StepsClosed(p) = StepsClosed(opencode) /\ SoundServer(p)
      BY <2>1 DEF OpenCodeInv, SoundServer, StepsClosed
  <2>5. StopIsLast(p, events)
      BY <2>1 DEF OpenCodeInv, StopIsLast
  <2>6. SoundAdapter(p, events, a)
      BY <2>1, <2>3, <2>4 DEF OpenCodeInv, SoundAdapter, OwnTurn, SawStop, TextIsOfStep
  <2> QED BY <2>1, <2>2, <2>3, <2>4, <2>5, <2>6 DEF OpenCodeInv, OpenCodeTypeOK
<1> QED BY <1>1, <1>2, <1>3, ProviderSends, TakesEvent, CallbackEnds, RunSteps DEF OpenCodeNext

\* The invariant of the OpenCode adapter holds in every reachable state.
LEMMA OpenCodeInvariance == OpenCodeSpec => []OpenCodeInv
<1>1. OpenCodeInit => OpenCodeInv
  <2> SUFFICES ASSUME OpenCodeInit PROVE OpenCodeInv
      OBVIOUS
  <2>1. OpenCodeTypeOK
      BY DEF OpenCodeInit, OpenCodeTypeOK, ServerType, AdapterType, Completions
  <2>2. SoundServer(opencode) /\ StopIsLast(opencode, events) /\ StepsClosed(opencode) = 0
      BY DEF OpenCodeInit, SoundServer, StopIsLast, StepsClosed
  <2>3. LeadsTo(oc.usage, events, StepsClosed(opencode))
    <3> DEFINE f == [i \in 1..1 |-> 0]
    <3>1. f \in [1..Len(events) + 1 -> Nat] /\ oc.usage = 0 /\ Len(events) = 0
        BY DEF OpenCodeInit
    <3>2. Leads(f, oc.usage, events, StepsClosed(opencode))
        BY <2>2, <3>1 DEF Leads
    <3> QED BY <3>1, <3>2 DEF LeadsTo
  <2>4. SoundAdapter(opencode, events, oc)
      BY <2>3 DEF OpenCodeInit, SoundAdapter, TextIsOfStep, SawStop
  <2> QED BY <2>1, <2>2, <2>4 DEF OpenCodeInv
<1>2. OpenCodeInv /\ UNCHANGED openCodeVars => OpenCodeInv'
    BY DEF OpenCodeInv, OpenCodeTypeOK, openCodeVars
<1> QED BY <1>1, <1>2, OpenCodeStep, PTL DEF OpenCodeSpec

\* A session that ends in a result has the text of the provider's last step and the usage of
\* each of its steps once; the session is over and its server gone.
THEOREM SessionResultIsTerminal == OpenCodeSpec => []OpenCodeResultIsTerminal
<1>1. OpenCodeInv => OpenCodeResultIsTerminal
    BY DEF OpenCodeInv, SoundAdapter, SawStop, OwnTurn, OpenCodeResultIsTerminal
<1> QED BY <1>1, OpenCodeInvariance, PTL

(***************************************************************************)
(* The App Server's turn.                                                  *)
(***************************************************************************)
Saids == [text : Nat, usage : Nat]
LineKinds ==
    {"response", "refusal", "threadStarted", "turnStarted", "delta", "item", "usage",
     "completed", "unsuccessful", "refused", "foreign", "gone"}
LineType == [kind : LineKinds, said : Saids]
ChildType ==
    [alive : BOOLEAN, lines : Nat, answered : Nat, said : Saids, refused : BOOLEAN, final : Saids,
     completed : BOOLEAN]
Classes == {"provider", "transport"}
ClientType ==
    [asked : {1, 2, 3}, current : BOOLEAN, answer : {"none", "ok", "failed"},
     thread : BOOLEAN, turn : BOOLEAN, active : BOOLEAN, turns : {0, 1}, said : Saids,
     handler : {"loop", "callback", "completed", "unsuccessful", "ended"},
     terminal : {"none", "result"} \cup Classes, result : Saids,
     closed : BOOLEAN, interrupted : BOOLEAN,
     outcome : {"running", "result", "cancellation", "unsettled"} \cup Classes,
     settling : {"no", "closed", "terminated", "killed", "done"}]

AppTypeOK ==
    /\ provider \in ChildType
    /\ messages \in Seq(LineType)
    /\ app \in ClientType

\* What the client holds of the turn once it has handled a line.
After(said, m) ==
    CASE m.kind = "delta" -> [said EXCEPT !.text = @ + 1]
      [] m.kind = "item" -> [said EXCEPT !.text = m.said.text]
      [] m.kind = "usage" -> [said EXCEPT !.usage = m.said.usage]
      [] OTHER -> said

\* The queue leads from what the client holds to what the child has said; an end of the turn
\* that the client will get to comes where the child completed it.
Bad(m) == m.kind \in {"refused", "foreign"}
EndsTurn(ms, i) == ms[i].kind = "completed" /\ \A j \in 1..Len(ms) : j < i => ~Bad(ms[j])
Tells(f, said, ms, p) ==
    /\ f[1] = said /\ f[Len(ms) + 1] = p.said
    /\ \A i \in 1..Len(ms) :
          f[i + 1] = After(f[i], ms[i]) /\ (EndsTurn(ms, i) => p.completed /\ p.final = f[i])
TellsAll(said, ms, p) == \E f \in [1..Len(ms) + 1 -> Saids] : Tells(f, said, ms, p)

\* As long as the turn has no outcome, nothing the child said is lost.
Listening(a) == a.outcome = "running" /\ a.terminal = "none"
MissesNothing(p, ms, a) ==
    /\ ~a.closed /\ a.handler # "ended"
    /\ p.refused => \E i \in 1..Len(ms) : Bad(ms[i])
    /\ TellsAll(a.said, ms, p)
    /\ a.handler = "completed" => p.completed /\ a.said = p.final

SoundClient(p, ms, a) ==
    /\ Listening(a) => MissesNothing(p, ms, a)
    /\ a.terminal = "result" => p.completed /\ a.result = p.final
    /\ a.outcome = "result" => a.terminal = "result" /\ a.closed /\ (a.settling = "done" => ~p.alive)

AppInv == AppTypeOK /\ SoundClient(provider, messages, app)

\* A line that says nothing of the turn's result changes nothing said.
LEMMA AfterIsTyped ==
    ASSUME NEW said \in Saids, NEW m \in LineType
    PROVE  /\ After(said, m) \in Saids
           /\ m.kind \notin {"delta", "item", "usage"} => After(said, m) = said
BY DEF After, Saids, LineType

\* The child says one thing more.
LEMMA TellsOn ==
    ASSUME NEW ms \in Seq(LineType), NEW m \in LineType, NEW said, NEW p \in ChildType, NEW q \in ChildType,
           TellsAll(said, ms, p), p.refused => \E i \in 1..Len(ms) : Bad(ms[i]),
           q.said = After(p.said, m),
           p.completed => q.completed /\ q.final = p.final,
           m.kind = "completed" => p.refused \/ (q.completed /\ q.final = p.said),
           q.refused => p.refused \/ Bad(m)
    PROVE  /\ TellsAll(said, Append(ms, m), q)
           /\ q.refused => \E i \in 1..Len(Append(ms, m)) : Bad(Append(ms, m)[i])
<1> PICK f \in [1..Len(ms) + 1 -> Saids] : Tells(f, said, ms, p)
    BY DEF TellsAll
<1> DEFINE next == Append(ms, m)
           g == [i \in 1..Len(next) + 1 |-> IF i = Len(next) + 1 THEN q.said ELSE f[i]]
<1>1. /\ Len(next) = Len(ms) + 1 /\ next[Len(ms) + 1] = m /\ Len(ms) \in Nat
      /\ \A i \in 1..Len(ms) : next[i] = ms[i]
    OBVIOUS
<1>2. g \in [1..Len(next) + 1 -> Saids]
    BY <1>1 DEF ChildType
<1>3. /\ g[1] = said /\ g[Len(next) + 1] = q.said /\ g[Len(ms) + 1] = p.said
      /\ \A i \in 1..Len(ms) + 1 : g[i] = f[i]
    BY <1>1 DEF Tells
<1> HIDE DEF g, next
<1>4. ASSUME NEW i \in 1..Len(next)
      PROVE  g[i + 1] = After(g[i], next[i]) /\ (EndsTurn(next, i) => q.completed /\ q.final = g[i])
  <2>1. CASE i = Len(ms) + 1
    <3>1. g[i + 1] = After(g[i], next[i])
        BY <1>1, <1>3, <2>1
    <3>2. ASSUME EndsTurn(next, i) PROVE q.completed /\ q.final = g[i]
      <4>1. m.kind = "completed"
          BY <1>1, <2>1, <3>2 DEF EndsTurn
      <4>2. ASSUME NEW j \in 1..Len(ms) PROVE ~Bad(ms[j])
          BY <1>1, <2>1, <3>2 DEF EndsTurn
      <4> QED BY <1>3, <2>1, <4>1, <4>2
    <3> QED BY <3>1, <3>2
  <2>2. CASE i \in 1..Len(ms)
    <3>1. g[i + 1] = f[i + 1] /\ g[i] = f[i] /\ next[i] = ms[i]
        BY <1>1, <1>3, <2>2
    <3>2. EndsTurn(next, i) => EndsTurn(ms, i)
        BY <1>1, <2>2 DEF EndsTurn
    <3> QED BY <2>2, <3>1, <3>2 DEF Tells
  <2> QED BY <1>1, <2>1, <2>2
<1>5. TellsAll(said, next, q)
    BY <1>2, <1>3, <1>4 DEF Tells, TellsAll
<1>6. q.refused => \E i \in 1..Len(next) : Bad(next[i])
    BY <1>1
<1> QED BY <1>5, <1>6 DEF next

\* The client handles the first line of the queue, which is none it refuses.
LEMMA TellsFrom ==
    ASSUME NEW ms \in Seq(LineType), ms # <<>>, NEW said, NEW p, TellsAll(said, ms, p), ~Bad(Head(ms)),
           p.refused => \E i \in 1..Len(ms) : Bad(ms[i])
    PROVE  /\ TellsAll(After(said, Head(ms)), Tail(ms), p)
           /\ p.refused => \E i \in 1..Len(Tail(ms)) : Bad(Tail(ms)[i])
           /\ Head(ms).kind = "completed" => p.completed /\ p.final = said
<1> PICK f \in [1..Len(ms) + 1 -> Saids] : Tells(f, said, ms, p)
    BY DEF TellsAll
<1> DEFINE rest == Tail(ms)
           g == [i \in 1..Len(rest) + 1 |-> f[i + 1]]
<1>1. /\ Len(ms) \in Nat /\ Len(ms) > 0 /\ Len(rest) = Len(ms) - 1
      /\ \A i \in 1..Len(rest) : rest[i] = ms[i + 1]
      /\ Head(ms) = ms[1]
    OBVIOUS
<1>2. g \in [1..Len(rest) + 1 -> Saids] /\ \A i \in 1..Len(rest) + 1 : g[i] = f[i + 1]
    BY <1>1
<1>3. f[2] = After(said, ms[1]) /\ (EndsTurn(ms, 1) => p.completed /\ p.final = said)
    BY <1>1 DEF Tells
<1>4. ms[1].kind = "completed" => EndsTurn(ms, 1)
    BY <1>1 DEF EndsTurn
<1> HIDE DEF g, rest
<1>5. g[1] = After(said, ms[1]) /\ g[Len(rest) + 1] = p.said
    BY <1>1, <1>2, <1>3 DEF Tells
<1>6. ASSUME NEW i \in 1..Len(rest)
      PROVE  g[i + 1] = After(g[i], rest[i]) /\ (EndsTurn(rest, i) => p.completed /\ p.final = g[i])
  <2>1. i + 1 \in 1..Len(ms) /\ rest[i] = ms[i + 1] /\ g[i] = f[i + 1] /\ g[i + 1] = f[(i + 1) + 1]
      BY <1>1, <1>2
  <2>2. ASSUME EndsTurn(rest, i) PROVE EndsTurn(ms, i + 1)
    <3>1. ms[i + 1].kind = "completed"
        BY <2>1, <2>2 DEF EndsTurn
    <3>2. ASSUME NEW j \in 1..Len(ms), j < i + 1 PROVE ~Bad(ms[j])
      <4>1. CASE j = 1
          BY <1>1, <4>1
      <4>2. CASE j # 1
        <5>1. j - 1 \in 1..Len(rest) /\ j - 1 < i /\ rest[j - 1] = ms[(j - 1) + 1] /\ (j - 1) + 1 = j
            BY <1>1, <3>2, <4>2
        <5> QED BY <2>2, <5>1 DEF EndsTurn
      <4> QED BY <4>1, <4>2
    <3> QED BY <3>1, <3>2 DEF EndsTurn
  <2> QED BY <2>1, <2>2 DEF Tells
<1>7. TellsAll(After(said, ms[1]), rest, p)
    BY <1>2, <1>5, <1>6 DEF Tells, TellsAll
<1>8. p.refused => \E i \in 1..Len(rest) : Bad(rest[i])
  <2> SUFFICES ASSUME p.refused PROVE \E i \in 1..Len(rest) : Bad(rest[i])
      OBVIOUS
  <2> PICK j \in 1..Len(ms) : Bad(ms[j])
      OBVIOUS
  <2>1. j # 1
      BY <1>1
  <2>2. j - 1 \in 1..Len(rest) /\ rest[j - 1] = ms[(j - 1) + 1] /\ (j - 1) + 1 = j
      BY <1>1, <2>1
  <2> QED BY <2>2
<1> QED BY <1>1, <1>3, <1>4, <1>7, <1>8 DEF rest

\* A failure closes the queue and keeps an earlier end of the turn.
LEMMA FailsTerminal ==
    ASSUME NEW a \in ClientType, NEW class \in Classes
    PROVE  LET b == FailTerminal(a, class)
           IN  /\ b \in ClientType /\ b.closed /\ b.terminal # "none" /\ (b.terminal = "result" => a.terminal = "result")
               /\ a.terminal # "none" => b.terminal = a.terminal
               /\ b.outcome = a.outcome /\ b.settling = a.settling /\ b.result = a.result /\ b.said = a.said
               /\ b.handler = a.handler
<1> DEFINE b == FailTerminal(a, class)
<1>1. b \in ClientType
  <2> DEFINE answer == IF a.current THEN "failed" ELSE a.answer
             terminal == IF a.terminal = "none" THEN class ELSE a.terminal
  <2>1. answer \in {"none", "ok", "failed"} /\ terminal \in {"none", "result"} \cup Classes
      BY DEF ClientType
  <2>2. b = [a EXCEPT !.terminal = terminal, !.answer = answer, !.current = FALSE, !.closed = TRUE]
      BY DEF FailTerminal
  <2> HIDE DEF answer, terminal, b
  <2> QED BY <2>1, <2>2 DEF ClientType
<1>2. /\ b.closed = TRUE /\ b.terminal = IF a.terminal = "none" THEN class ELSE a.terminal
      /\ b.outcome = a.outcome /\ b.settling = a.settling /\ b.result = a.result /\ b.said = a.said
      /\ b.handler = a.handler
    BY DEF FailTerminal, ClientType
<1> HIDE DEF b
<1>3. class # "none" /\ class # "result"
    BY DEF Classes
<1> QED BY <1>1, <1>2, <1>3 DEF b

\* A line of the child, and what it says of the turn.
LEMMA ChildKeeps ==
    ASSUME AppInv, NEW m \in LineType, NEW q \in ChildType, provider' = q, Enqueue(m),
           q.said = After(provider.said, m), q.alive => provider.alive,
           provider.completed => q.completed /\ q.final = provider.final,
           m.kind = "completed" => provider.refused \/ (q.completed /\ q.final = provider.said),
           q.refused => provider.refused \/ Bad(m)
    PROVE  AppInv'
<1> DEFINE p == provider
<1>0. /\ p \in ChildType /\ messages \in Seq(LineType) /\ app \in ClientType
      /\ SoundClient(p, messages, app)
    BY DEF AppInv, AppTypeOK
<1>1. ASSUME NEW ms, NEW a, a.terminal = "result" => app.terminal = "result", a.result = app.result,
             a.outcome = app.outcome, a.settling = app.settling, app.closed => a.closed,
             app.terminal # "none" => a.terminal = app.terminal, Listening(a) => MissesNothing(q, ms, a)
      PROVE  SoundClient(q, ms, a)
  <2>1. a.terminal = "result" => q.completed /\ a.result = q.final
      BY <1>0, <1>1 DEF SoundClient
  <2>2. a.outcome = "result" => a.terminal = "result" /\ a.closed /\ (a.settling = "done" => ~q.alive)
      BY <1>0, <1>1 DEF SoundClient
  <2> QED BY <1>1, <2>1, <2>2 DEF SoundClient
<1>2. CASE app.closed
  <2>1. UNCHANGED <<messages, app>>
      BY <1>2 DEF Enqueue
  <2>2. ~Listening(app)
      BY <1>0, <1>2 DEF SoundClient, MissesNothing
  <2>3. SoundClient(q, messages, app)
      BY <1>1, <2>2
  <2> QED BY <1>0, <2>1, <2>3 DEF AppInv, AppTypeOK
<1>3. CASE ~app.closed /\ Len(messages) < MessageBound
  <2> DEFINE ms == Append(messages, m)
  <2>1. messages' = ms /\ app' = app /\ ms \in Seq(LineType)
      BY <1>0, <1>3 DEF Enqueue
  <2>2. ASSUME Listening(app) PROVE MissesNothing(q, ms, app)
    <3>1. MissesNothing(p, messages, app)
        BY <1>0, <2>2 DEF SoundClient
    <3>2. TellsAll(app.said, messages, p) /\ (p.refused => \E i \in 1..Len(messages) : Bad(messages[i]))
        BY <3>1 DEF MissesNothing
    <3>3. /\ TellsAll(app.said, ms, q)
          /\ q.refused => \E i \in 1..Len(ms) : Bad(ms[i])
        BY <1>0, <3>2, TellsOn
    <3> HIDE DEF ms
    <3>4. app.handler = "completed" => q.completed /\ app.said = q.final
        BY <3>1 DEF MissesNothing
    <3> QED BY <3>1, <3>3, <3>4 DEF MissesNothing
  <2> HIDE DEF ms
  <2>3. SoundClient(q, ms, app)
      BY <1>1, <2>2
  <2> QED BY <1>0, <2>1, <2>3 DEF AppInv, AppTypeOK
<1>4. CASE ~app.closed /\ ~(Len(messages) < MessageBound)
  <2> DEFINE a == FailTerminal(app, "provider")
  <2>1. messages' = messages /\ app' = a
      BY <1>4 DEF Enqueue
  <2>2. /\ a \in ClientType /\ a.closed /\ a.terminal # "none" /\ (a.terminal = "result" => app.terminal = "result")
        /\ app.terminal # "none" => a.terminal = app.terminal
        /\ a.outcome = app.outcome /\ a.settling = app.settling /\ a.result = app.result
      BY <1>0, FailsTerminal DEF Classes
  <2> HIDE DEF a
  <2>3. SoundClient(q, messages, a)
      BY <1>1, <2>2 DEF Listening
  <2> QED BY <1>0, <2>1, <2>2, <2>3 DEF AppInv, AppTypeOK
<1> QED BY <1>2, <1>3, <1>4

\* Says, for a line that means change.
LEMMA SaysKeeps ==
    ASSUME AppInv, NEW m \in LineType, NEW change \in ChildType, Says(m, change),
           change.said = After(provider.said, m), change.alive = provider.alive,
           provider.completed => change.completed /\ change.final = provider.final,
           m.kind = "completed" => provider.refused \/ (change.completed /\ change.final = provider.said),
           change.refused => provider.refused \/ Bad(m)
    PROVE  AppInv'
<1> DEFINE q == [change EXCEPT !.lines = @ + 1]
<1>1. /\ q \in ChildType /\ q.said = change.said /\ q.alive = change.alive /\ q.completed = change.completed
      /\ q.final = change.final /\ q.refused = change.refused
    BY DEF ChildType
<1>2. provider' = q /\ Enqueue(m)
    BY DEF Says
<1> HIDE DEF q
<1> QED BY <1>1, <1>2, ChildKeeps

\* What the child does keeps the invariant.
LEMMA ChildSteps ==
    ASSUME AppInv, ServerAnswers \/ ServerReports \/ ServerEndsTurn \/ ServerErrs \/ ServerExits
    PROVE  AppInv'
<1> DEFINE p == provider
<1>0. p \in ChildType /\ p.said \in Saids /\ app.asked \in Nat /\ NoText \in Saids
    BY DEF AppInv, AppTypeOK, ChildType, ClientType, NoText, Saids
<1>1. ASSUME NEW kind \in LineKinds, NEW said \in Saids
      PROVE  Line(kind, said) \in LineType /\ Line(kind, said).kind = kind /\ Line(kind, said).said = said
    BY DEF Line, LineType
<1>2. CASE ServerAnswers
  <2> PICK kind \in {"response", "refusal"} : Says(Line(kind, NoText), [p EXCEPT !.answered = app.asked])
      BY <1>2 DEF ServerAnswers
  <2> DEFINE q == [p EXCEPT !.answered = app.asked]
             m == Line(kind, NoText)
  <2>1. /\ q \in ChildType /\ q.said = p.said /\ q.alive = p.alive /\ q.completed = p.completed
        /\ q.final = p.final /\ q.refused = p.refused
      BY <1>0 DEF ChildType
  <2>2. m \in LineType /\ m.kind = kind
      BY <1>0, <1>1 DEF LineKinds
  <2>3. Says(m, q)
      OBVIOUS
  <2> HIDE DEF q, m
  <2>4. After(p.said, m) = p.said
      BY <1>0, <2>2, AfterIsTyped
  <2> QED BY <2>1, <2>2, <2>3, <2>4, SaysKeeps
<1>3. CASE ServerReports
  <2>1. CASE \E kind \in {"threadStarted", "turnStarted"} : Says(Line(kind, NoText), p)
    <3> PICK kind \in {"threadStarted", "turnStarted"} : Says(Line(kind, NoText), p)
        BY <2>1
    <3> DEFINE m == Line(kind, NoText)
    <3>1. m \in LineType /\ m.kind = kind /\ Says(m, p)
        BY <1>0, <1>1 DEF LineKinds
    <3> HIDE DEF m
    <3>2. After(p.said, m) = p.said
        BY <1>0, <3>1, AfterIsTyped
    <3> QED BY <1>0, <3>1, <3>2, SaysKeeps
  <2>2. ASSUME NEW kind \in {"delta", "item", "usage"}, NEW said \in Saids, NEW meant \in Saids,
               Says(Line(kind, said), [p EXCEPT !.said = meant]), After(p.said, Line(kind, said)) = meant
        PROVE  AppInv'
    <3> DEFINE q == [p EXCEPT !.said = meant]
               m == Line(kind, said)
    <3>1. /\ q \in ChildType /\ q.said = meant /\ q.alive = p.alive /\ q.completed = p.completed
          /\ q.final = p.final /\ q.refused = p.refused
        BY <1>0 DEF ChildType
    <3>2. m \in LineType /\ m.kind = kind /\ Says(m, q) /\ After(p.said, m) = meant
        BY <1>1, <2>2 DEF LineKinds
    <3> HIDE DEF q, m
    <3> QED BY <3>1, <3>2, SaysKeeps
  <2>3. CASE Says(Line("delta", NoText), [p EXCEPT !.said.text = @ + 1])
    <3> DEFINE meant == [p.said EXCEPT !.text = @ + 1]
    <3>1. meant \in Saids /\ After(p.said, Line("delta", NoText)) = meant
        BY <1>0 DEF Saids, After, Line
    <3>2. [p EXCEPT !.said.text = @ + 1] = [p EXCEPT !.said = meant]
        BY <1>0 DEF ChildType
    <3> QED BY <1>0, <2>2, <2>3, <3>1, <3>2
  <2>4. CASE Says(Line("item", [p.said EXCEPT !.text = @ + 1]), [p EXCEPT !.said.text = @ + 1])
    <3> DEFINE meant == [p.said EXCEPT !.text = @ + 1]
    <3>1. meant \in Saids /\ After(p.said, Line("item", meant)) = meant
        BY <1>0 DEF Saids, After, Line
    <3>2. [p EXCEPT !.said.text = @ + 1] = [p EXCEPT !.said = meant]
        BY <1>0 DEF ChildType
    <3> QED BY <1>0, <2>2, <2>4, <3>1, <3>2
  <2>5. CASE Says(Line("usage", [p.said EXCEPT !.usage = @ + 1]), [p EXCEPT !.said.usage = @ + 1])
    <3> DEFINE meant == [p.said EXCEPT !.usage = @ + 1]
    <3>1. meant \in Saids /\ After(p.said, Line("usage", meant)) = meant
        BY <1>0 DEF Saids, After, Line
    <3>2. [p EXCEPT !.said.usage = @ + 1] = [p EXCEPT !.said = meant]
        BY <1>0 DEF ChildType
    <3> QED BY <1>0, <2>2, <2>5, <3>1, <3>2
  <2> QED BY <1>3, <2>1, <2>3, <2>4, <2>5 DEF ServerReports
<1>4. CASE ServerEndsTurn
  <2> PICK kind \in {"completed", "unsuccessful"} :
          Says(Line(kind, NoText),
               [p EXCEPT !.completed = (kind = "completed" /\ ~p.refused), !.final = p.said])
      BY <1>4 DEF ServerEndsTurn
  <2> DEFINE completed == (kind = "completed" /\ ~p.refused)
             q == [p EXCEPT !.completed = completed, !.final = p.said]
             m == Line(kind, NoText)
  <2>0. completed \in BOOLEAN
      OBVIOUS
  <2>1. m \in LineType /\ m.kind = kind /\ Says(m, q) /\ ~p.completed
      BY <1>0, <1>1, <1>4 DEF LineKinds, ServerEndsTurn
  <2>2. m.kind = "completed" /\ ~p.refused => completed
      BY <2>1
  <2> HIDE DEF completed
  <2>3. /\ q \in ChildType /\ q.said = p.said /\ q.alive = p.alive /\ q.completed = completed
        /\ q.final = p.said /\ q.refused = p.refused
      BY <1>0, <2>0 DEF ChildType
  <2> HIDE DEF q, m
  <2>4. After(p.said, m) = p.said
      BY <1>0, <2>1, AfterIsTyped
  <2> QED BY <2>1, <2>2, <2>3, <2>4, SaysKeeps
<1>5. CASE ServerErrs
  <2> PICK kind \in {"refused", "foreign"} : Says(Line(kind, NoText), [p EXCEPT !.refused = TRUE])
      BY <1>5 DEF ServerErrs
  <2> DEFINE q == [p EXCEPT !.refused = TRUE]
             m == Line(kind, NoText)
  <2>1. m \in LineType /\ m.kind = kind /\ Says(m, q)
      BY <1>0, <1>1 DEF LineKinds
  <2>2. /\ q \in ChildType /\ q.said = p.said /\ q.alive = p.alive /\ q.completed = p.completed
        /\ q.final = p.final
      BY <1>0 DEF ChildType
  <2> HIDE DEF q, m
  <2>3. After(p.said, m) = p.said /\ Bad(m)
      BY <1>0, <2>1, AfterIsTyped DEF Bad
  <2> QED BY <2>1, <2>2, <2>3, SaysKeeps
<1>6. CASE ServerExits
  <2> DEFINE q == [p EXCEPT !.alive = FALSE]
             m == Line("gone", NoText)
  <2>1. m \in LineType /\ m.kind = "gone" /\ Enqueue(m) /\ provider' = q
      BY <1>0, <1>1, <1>6 DEF LineKinds, ServerExits
  <2>2. /\ q \in ChildType /\ q.said = p.said /\ ~q.alive /\ q.completed = p.completed
        /\ q.final = p.final /\ q.refused = p.refused
      BY <1>0 DEF ChildType
  <2> HIDE DEF q, m
  <2>3. After(p.said, m) = p.said
      BY <1>0, <2>1, AfterIsTyped
  <2> QED BY <2>1, <2>2, <2>3, ChildKeeps
<1> QED BY <1>2, <1>3, <1>4, <1>5, <1>6

\* A step of the client that neither takes a line nor adds to what it holds of the turn.
LEMMA ClientKeeps ==
    ASSUME AppInv, NEW a \in ClientType, app' = a, UNCHANGED <<provider, messages>>, a.said = app.said,
           Listening(a) => /\ Listening(app) /\ (a.closed => app.closed) /\ a.handler # "ended"
                           /\ (a.handler = "completed" => app.handler = "completed"),
           a.terminal = "result" => provider.completed /\ a.result = provider.final,
           a.outcome = "result" => a.terminal = "result" /\ a.closed /\ (a.settling = "done" => ~provider.alive)
    PROVE  AppInv'
<1>1. Listening(a) => MissesNothing(provider, messages, a)
    BY DEF AppInv, SoundClient, MissesNothing
<1>2. SoundClient(provider, messages, a)
    BY <1>1 DEF SoundClient
<1> QED BY <1>2 DEF AppInv, AppTypeOK

\* A handler that ends with a failure keeps the invariant.
LEMMA ClientEnds ==
    ASSUME AppInv, Running, NEW class \in Classes, NEW ms \in Seq(LineType), messages' = ms, UNCHANGED provider,
           app' = [FailTerminal(app, class) EXCEPT !.handler = "ended"]
    PROVE  AppInv'
<1> DEFINE b == FailTerminal(app, class)
           a == [b EXCEPT !.handler = "ended"]
<1>0. app \in ClientType /\ SoundClient(provider, messages, app)
    BY DEF AppInv, AppTypeOK
<1>1. /\ b \in ClientType /\ b.terminal # "none" /\ (b.terminal = "result" => app.terminal = "result")
      /\ b.outcome = app.outcome /\ b.result = app.result
    BY <1>0, FailsTerminal
<1> HIDE DEF b
<1>2. /\ a \in ClientType /\ a.terminal = b.terminal /\ a.outcome = app.outcome /\ a.result = app.result
    BY <1>1 DEF ClientType
<1>3. app' = a
    BY DEF b
<1> HIDE DEF a
<1>4. SoundClient(provider, ms, a)
    BY <1>0, <1>1, <1>2 DEF SoundClient, Listening, Running
<1> QED BY <1>2, <1>3, <1>4 DEF AppInv, AppTypeOK

\* Taking a line from the queue keeps the invariant.
LEMMA HandlesLine ==
    ASSUME AppInv, ProcessMessage
    PROVE  AppInv'
<1> DEFINE m == Head(messages)
           rest == Tail(messages)
           p == provider
<1>0. /\ p \in ChildType /\ app \in ClientType /\ messages \in Seq(LineType) /\ messages # <<>>
      /\ m \in LineType /\ rest \in Seq(LineType)
      /\ SoundClient(p, messages, app) /\ Running /\ app.handler = "loop"
      /\ messages' = rest /\ UNCHANGED provider
    BY DEF AppInv, AppTypeOK, ProcessMessage
<1>1. CASE ~Accepted(m)
    BY <1>0, <1>1, ClientEnds DEF ProcessMessage, Classes
<1>2. CASE Accepted(m)
  <2> DEFINE a == app'
             Answers == {"response", "refusal"}
  <2>0. a = Handled(m) /\ m.kind \in LineKinds /\ m.said \in Saids /\ ~Bad(m) /\ m.kind # "gone"
      BY <1>0, <1>2 DEF ProcessMessage, LineType, Accepted, Bad
  <2>1. /\ a \in ClientType /\ a.terminal = app.terminal /\ a.result = app.result /\ a.outcome = app.outcome
        /\ a.closed = app.closed /\ a.settling = app.settling /\ a.handler # "ended"
        /\ a.handler = "completed" => m.kind = "completed"
        /\ a.said = After(app.said, m)
    <3> HIDE DEF a
    <3>0. app.said \in Saids
        BY <1>0 DEF ClientType
    <3>1. CASE m.kind \in Answers
      <4>1. a = [app EXCEPT !.current = FALSE, !.answer = IF m.kind = "response" THEN "ok" ELSE "failed"]
          BY <2>0, <3>1 DEF Handled
      <4>2. After(app.said, m) = app.said
          BY <1>0, <3>0, <3>1, AfterIsTyped
      <4> QED BY <1>0, <3>1, <4>1, <4>2 DEF ClientType
    <3>2. CASE m.kind = "threadStarted"
      <4>1. a = [app EXCEPT !.handler = "callback"]
          BY <2>0, <3>2 DEF Handled
      <4>2. After(app.said, m) = app.said
          BY <1>0, <3>0, <3>2, AfterIsTyped
      <4> QED BY <1>0, <3>2, <4>1, <4>2 DEF ClientType
    <3>3. CASE m.kind = "turnStarted"
      <4>1. a = [app EXCEPT !.turns = 1, !.handler = "callback"]
          BY <2>0, <3>3 DEF Handled
      <4>2. After(app.said, m) = app.said
          BY <1>0, <3>0, <3>3, AfterIsTyped
      <4> QED BY <1>0, <3>3, <4>1, <4>2 DEF ClientType
    <3>4. CASE m.kind \in {"delta", "item", "usage"}
      <4>1. /\ After(app.said, m) \in Saids
            /\ \/ a = [app EXCEPT !.said = After(app.said, m)]
               \/ a = [app EXCEPT !.said = After(app.said, m), !.handler = "callback"]
        <5>1. CASE m.kind = "delta"
            BY <1>0, <2>0, <3>0, <5>1, AfterIsTyped DEF Handled, After, ClientType
        <5>2. CASE m.kind = "item"
            BY <1>0, <2>0, <3>0, <5>2, AfterIsTyped DEF Handled, After, ClientType
        <5>3. CASE m.kind = "usage"
            BY <1>0, <2>0, <3>0, <5>3, AfterIsTyped DEF Handled, After, ClientType
        <5> QED BY <3>4, <5>1, <5>2, <5>3
      <4> QED BY <1>0, <4>1 DEF ClientType
    <3>5. CASE m.kind \in {"completed", "unsuccessful"}
      <4>1. a = [app EXCEPT !.active = FALSE, !.handler = m.kind]
          BY <2>0, <3>5 DEF Handled
      <4>2. After(app.said, m) = app.said
          BY <1>0, <3>0, <3>5, AfterIsTyped
      <4> QED BY <1>0, <3>5, <4>1, <4>2 DEF ClientType
    <3> QED BY <2>0, <3>1, <3>2, <3>3, <3>4, <3>5 DEF LineKinds, Bad
  <2>2. app' = a
      OBVIOUS
  <2> HIDE DEF a
  <2>3. Listening(a) => MissesNothing(p, rest, a)
    <3> SUFFICES ASSUME Listening(a) PROVE MissesNothing(p, rest, a)
        OBVIOUS
    <3>1. MissesNothing(p, messages, app)
        BY <1>0, <2>1 DEF SoundClient, Listening
    <3>2. TellsAll(app.said, messages, p) /\ (p.refused => \E i \in 1..Len(messages) : Bad(messages[i]))
        BY <3>1 DEF MissesNothing
    <3>3. /\ TellsAll(After(app.said, m), rest, p)
          /\ p.refused => \E i \in 1..Len(rest) : Bad(rest[i])
          /\ m.kind = "completed" => p.completed /\ p.final = app.said
        BY <1>0, <2>0, <3>2, TellsFrom
    <3>4. m.kind = "completed" => After(app.said, m) = app.said
        BY <1>0, AfterIsTyped DEF ClientType
    <3> HIDE DEF rest, m
    <3> QED BY <2>1, <3>1, <3>3, <3>4 DEF MissesNothing
  <2>4. SoundClient(p, rest, a)
      BY <1>0, <2>1, <2>3 DEF SoundClient, Running
  <2> QED BY <1>0, <2>1, <2>2, <2>4 DEF AppInv, AppTypeOK
<1> QED BY <1>1, <1>2

\* The client leaves the turn.
LEMMA ClientLeaves ==
    ASSUME AppInv, NEW outcome \in {"result", "cancellation"} \cup Classes, Leaves(outcome),
           outcome = "result" => app.terminal = "result"
    PROVE  AppInv'
<1> DEFINE interrupted == (outcome = "cancellation" /\ app.active /\ ~app.closed)
           a == [app EXCEPT !.outcome = outcome, !.closed = TRUE, !.settling = "closed",
                            !.interrupted = interrupted]
<1>0. app \in ClientType /\ SoundClient(provider, messages, app) /\ interrupted \in BOOLEAN
    BY DEF AppInv, AppTypeOK
<1>1. app' = a /\ UNCHANGED <<provider, messages>>
    BY DEF Leaves
<1> HIDE DEF interrupted
<1>2. /\ a \in ClientType /\ a.outcome = outcome /\ a.closed = TRUE /\ a.settling = "closed" /\ a.said = app.said
      /\ a.terminal = app.terminal /\ a.result = app.result
    BY <1>0 DEF ClientType, Classes
<1> HIDE DEF a
<1>3. outcome # "running"
    BY DEF Classes
<1> QED BY <1>0, <1>1, <1>2, <1>3, ClientKeeps DEF SoundClient, Listening

\* Every other step of the client keeps the invariant.
LEMMA ClientSteps ==
    ASSUME AppInv,
           \/ CallbackReturns \/ CallbackThrows \/ NextRequest \/ RequestFails \/ TurnEnds \/ AppAborted
           \/ Escalate \/ ChildSettled
    PROVE  AppInv'
<1>0. app \in ClientType /\ messages \in Seq(LineType) /\ SoundClient(provider, messages, app)
    BY DEF AppInv, AppTypeOK
<1>1. app.terminal = "result" => provider.completed /\ app.result = provider.final
    BY <1>0 DEF SoundClient
<1>2. app.outcome = "result" => app.terminal = "result" /\ app.closed /\ (app.settling = "done" => ~provider.alive)
    BY <1>0 DEF SoundClient
<1>3. CASE CallbackReturns
  <2>0. app.handler \in {"callback", "completed", "unsuccessful"} /\ Running /\ UNCHANGED <<provider, messages>>
      BY <1>3 DEF CallbackReturns
  <2>1. CASE app.handler = "callback" \/ (app.handler = "completed" /\ app.terminal # "none")
    <3> DEFINE a == [app EXCEPT !.handler = "loop"]
    <3>1. /\ a \in ClientType /\ a.handler = "loop" /\ a.said = app.said /\ a.terminal = app.terminal
          /\ a.result = app.result /\ a.outcome = app.outcome /\ a.closed = app.closed /\ a.settling = app.settling
        BY <1>0 DEF ClientType
    <3>2. app' = a
        BY <1>3, <2>1 DEF CallbackReturns
    <3> HIDE DEF a
    <3> QED BY <1>1, <1>2, <2>0, <3>1, <3>2, ClientKeeps DEF Listening
  <2>2. CASE app.handler = "completed" /\ app.terminal = "none"
    <3> DEFINE a == [app EXCEPT !.handler = "loop", !.terminal = "result", !.result = app.said]
    <3>1. /\ a \in ClientType /\ a.handler = "loop" /\ a.said = app.said /\ a.terminal = "result"
          /\ a.result = app.said /\ a.outcome = app.outcome /\ a.closed = app.closed /\ a.settling = app.settling
        BY <1>0 DEF ClientType
    <3>2. app' = a
        BY <1>3, <2>2 DEF CallbackReturns
    <3>3. provider.completed /\ app.said = provider.final
        BY <1>0, <2>0, <2>2 DEF SoundClient, Listening, MissesNothing, Running
    <3> HIDE DEF a
    <3> QED BY <1>2, <2>0, <3>1, <3>2, <3>3, ClientKeeps DEF Listening
  <2>3. CASE app.handler = "unsuccessful"
    <3>1. app' = [FailTerminal(app, "provider") EXCEPT !.handler = "ended"]
        BY <1>3, <2>3 DEF CallbackReturns
    <3> QED BY <1>0, <2>0, <3>1, ClientEnds DEF Classes
  <2> QED BY <2>0, <2>1, <2>2, <2>3
<1>4. CASE CallbackThrows
    BY <1>0, <1>4, ClientEnds DEF CallbackThrows, Classes
<1>5. CASE NextRequest
  <2>1. CASE Leaves("transport") \/ Leaves("provider")
      BY <2>1, ClientLeaves DEF Classes
  <2>2. CASE /\ app' = [app EXCEPT !.answer = "none", !.thread = app.asked >= 2, !.turn = app.asked = 3,
                                   !.active = app.asked = 3,
                                   !.asked = IF @ = 3 THEN 3 ELSE @ + 1, !.current = app.asked < 3]
             /\ UNCHANGED <<provider, messages>>
    <3> DEFINE thread == (app.asked >= 2)
               turn == (app.asked = 3)
               current == (app.asked < 3)
               asked == IF app.asked = 3 THEN 3 ELSE app.asked + 1
               a == [app EXCEPT !.answer = "none", !.thread = thread, !.turn = turn, !.active = turn,
                                !.asked = asked, !.current = current]
    <3>1. asked \in {1, 2, 3} /\ thread \in BOOLEAN /\ turn \in BOOLEAN /\ current \in BOOLEAN
        BY <1>0 DEF ClientType
    <3>2. app' = a
        BY <2>2
    <3> HIDE DEF asked, thread, turn, current
    <3>5. a \in ClientType
        BY <1>0, <3>1 DEF ClientType
    <3>3. /\ a.handler = app.handler /\ a.said = app.said /\ a.terminal = app.terminal
          /\ a.result = app.result /\ a.outcome = app.outcome /\ a.closed = app.closed /\ a.settling = app.settling
        BY <1>0 DEF ClientType
    <3> HIDE DEF a
    <3>4. Listening(app) => app.handler # "ended"
        BY <1>0 DEF SoundClient, MissesNothing
    <3> QED BY <1>1, <1>2, <2>2, <3>2, <3>3, <3>4, <3>5, ClientKeeps DEF Listening
  <2> QED BY <1>5, <2>1, <2>2 DEF NextRequest
<1>6. CASE RequestFails \/ AppAborted
    BY <1>6, ClientLeaves DEF RequestFails, AppAborted, Classes
<1>7. CASE TurnEnds
  <2>1. app.terminal \in {"result", "cancellation"} \cup Classes /\ Leaves(app.terminal)
      BY <1>0, <1>7 DEF TurnEnds, ClientType
  <2> QED BY <2>1, ClientLeaves
<1>8. CASE Escalate \/ ChildSettled
  <2> PICK a : /\ app' = a /\ a \in ClientType /\ a.handler = app.handler /\ a.said = app.said
               /\ a.terminal = app.terminal /\ a.result = app.result /\ a.closed = app.closed
               /\ \/ a.outcome = app.outcome /\ a.settling \in {"terminated", "killed"}
                  \/ a.outcome = "unsettled"
                  \/ a.outcome = app.outcome /\ ~provider.alive
    <3>1. ASSUME NEW settling \in {"terminated", "killed", "done"}
          PROVE  LET a == [app EXCEPT !.settling = settling]
                 IN  /\ a \in ClientType /\ a.handler = app.handler /\ a.said = app.said
                     /\ a.terminal = app.terminal /\ a.result = app.result /\ a.closed = app.closed
                     /\ a.outcome = app.outcome /\ a.settling = settling
        BY <1>0 DEF ClientType
    <3>2. LET a == [app EXCEPT !.settling = "done", !.outcome = "unsettled"]
          IN  /\ a \in ClientType /\ a.handler = app.handler /\ a.said = app.said
              /\ a.terminal = app.terminal /\ a.result = app.result /\ a.closed = app.closed
              /\ a.outcome = "unsettled"
      <4> DEFINE a == [app EXCEPT !.settling = "done", !.outcome = "unsettled"]
      <4>1. a \in ClientType
          BY <1>0 DEF ClientType
      <4>2. /\ a.handler = app.handler /\ a.said = app.said
            /\ a.terminal = app.terminal /\ a.result = app.result /\ a.closed = app.closed
            /\ a.outcome = "unsettled"
          BY <1>0 DEF ClientType
      <4> QED BY <4>1, <4>2
    <3>3. \/ app' = [app EXCEPT !.settling = "terminated"]
          \/ app' = [app EXCEPT !.settling = "killed"]
          \/ app' = [app EXCEPT !.settling = "done", !.outcome = "unsettled"]
          \/ app' = [app EXCEPT !.settling = "done"] /\ ~provider.alive
        BY <1>8 DEF Escalate, ChildSettled
    <3>4. CASE app' = [app EXCEPT !.settling = "terminated"]
        BY <3>1, <3>4
    <3>5. CASE app' = [app EXCEPT !.settling = "killed"]
        BY <3>1, <3>5
    <3>6. CASE app' = [app EXCEPT !.settling = "done", !.outcome = "unsettled"]
        BY <3>2, <3>6
    <3>7. CASE app' = [app EXCEPT !.settling = "done"] /\ ~provider.alive
        BY <3>1, <3>7
    <3> QED BY <3>3, <3>4, <3>5, <3>6, <3>7
  <2>1. UNCHANGED <<provider, messages>>
      BY <1>8 DEF Escalate, ChildSettled
  <2>2. Listening(app) => app.handler # "ended"
      BY <1>0 DEF SoundClient, MissesNothing
  <2> QED BY <1>1, <1>2, <2>1, <2>2, ClientKeeps DEF Listening
<1> QED BY <1>3, <1>4, <1>5, <1>6, <1>7, <1>8

\* The invariant of the App Server client holds in every reachable state.
LEMMA AppInvariance == AppSpec => []AppInv
<1>1. AppInit => AppInv
  <2> SUFFICES ASSUME AppInit PROVE AppInv
      OBVIOUS
  <2>1. provider \in ChildType /\ app \in ClientType /\ messages \in Seq(LineType)
      BY DEF AppInit, ChildType, ClientType, NoText, Saids
  <2>2. /\ provider.said = NoText /\ app.said = NoText /\ messages = <<>> /\ ~provider.refused
        /\ app.handler = "loop" /\ app.terminal = "none" /\ app.outcome = "running" /\ ~app.closed
        /\ NoText \in Saids
      BY DEF AppInit, NoText, Saids
  <2>3. TellsAll(app.said, messages, provider)
    <3> DEFINE f == [i \in 1..1 |-> NoText]
    <3>1. f \in [1..Len(messages) + 1 -> Saids] /\ Len(messages) = 0
        BY <2>2
    <3>2. Tells(f, app.said, messages, provider)
        BY <2>2, <3>1 DEF Tells
    <3> QED BY <3>1, <3>2 DEF TellsAll
  <2>4. MissesNothing(provider, messages, app)
      BY <2>2, <2>3 DEF MissesNothing
  <2> QED BY <2>1, <2>2, <2>4 DEF AppInv, AppTypeOK, SoundClient
<1>2. AppInv /\ UNCHANGED appVars => AppInv'
    BY DEF AppInv, AppTypeOK, appVars
<1>3. AppInv /\ AppNext => AppInv'
    BY ChildSteps, HandlesLine, ClientSteps DEF AppNext
<1> QED BY <1>1, <1>2, <1>3, PTL DEF AppSpec

\* A result of the App Server is the whole of its own turn, which the child had completed, with
\* nothing refused, dropped by the queue or said after the end; and the child is gone.
THEOREM TurnResultIsWhole == AppSpec => []AppResultIsWhole
<1>1. AppInv => AppResultIsWhole
    BY DEF AppInv, SoundClient, AppResultIsWhole
<1> QED BY <1>1, AppInvariance, PTL

====
