---- MODULE CandidateWorkspace ----
(***************************************************************************)
(* The writer worktrees of one Task                                        *)
(* (packages/candidate-workspace/src/candidate-workspace.ts, as            *)
(* packages/delivery-run/src/coding-activation.ts uses it).  An activation *)
(* removes the worktrees of the earlier ones, adds its own, lets a session *)
(* work there and freezes what it finds; a later execution of the Task can *)
(* do so while an earlier one still runs.  Every Git command is a step.    *)
(*                                                                         *)
(* Abstractions.  A commit is the sequence of commits that led to it, each *)
(* the set of the activations whose work it holds, so that an ancestor is  *)
(* a prefix.  The base is a commit of nobody with a parent of its own.     *)
(***************************************************************************)
EXTENDS Naturals, SequencesExt

CONSTANTS Activations, MaxCommits   \* bound: commits on top of the base

ASSUME WorkspaceAssumption == Activations \subseteq Nat \ {0} /\ MaxCommits \in Nat

VARIABLES
    worktree,   \* [Activations -> the worktree at the path of that activation]
    writer      \* [Activations -> the activation's use of the workspace]

workspaceVars == <<worktree, writer>>

Parent == <<>>
Base == <<{}>>
NoTree == [head |-> <<>>, dirty |-> {}, there |-> FALSE]

WorkspaceInit ==
    /\ worktree = [a \in Activations |-> NoTree]
    /\ writer = [a \in Activations |-> [step |-> "idle", todo |-> {}, candidate |-> Parent]]

\* Fault: one path for all activations of the Task.
WriterPath_Shared(a) == CHOOSE p \in Activations : \A q \in Activations : p <= q
WriterPath(a) == a

Tree(a) == worktree[WriterPath(a)]
AtStep(a, steps) == writer[a].step \in steps
GoTo(a, step) == writer' = [writer EXCEPT ![a].step = step]
SetTree(p, tree) == worktree' = [worktree EXCEPT ![p] = tree]

(***************************************************************************)
(* quarantinePriorWriters and prepareWriter.                                *)
(***************************************************************************)
ListPriorWriters(a) ==
    /\ AtStep(a, {"idle"})
    /\ writer' = [writer EXCEPT ![a].step = "quarantining",
                                ![a].todo = {p \in Activations : p < a /\ worktree[p].there}]
    /\ UNCHANGED worktree

QuarantinePrior(a) ==
    /\ AtStep(a, {"quarantining"})
    /\ \E p \in writer[a].todo :
          SetTree(p, NoTree) /\ writer' = [writer EXCEPT ![a].todo = @ \ {p}]

RemoveOwn(a) ==
    /\ AtStep(a, {"quarantining"}) /\ writer[a].todo = {}
    /\ SetTree(WriterPath(a), NoTree) /\ GoTo(a, "adding")

AddWorktree(a) ==
    /\ AtStep(a, {"adding"})
    /\ \/ ~Tree(a).there /\ SetTree(WriterPath(a), [head |-> Base, dirty |-> {}, there |-> TRUE]) /\ GoTo(a, "session")
       \/ GoTo(a, "lost") /\ SetTree(WriterPath(a), NoTree)

(***************************************************************************)
(* The session may edit, commit, and check out something else.              *)
(***************************************************************************)
Work(a) ==
    /\ AtStep(a, {"session"}) /\ Tree(a).there
    /\ \/ SetTree(WriterPath(a), [Tree(a) EXCEPT !.dirty = @ \cup {a}])
       \/ /\ Len(Tree(a).head) <= MaxCommits
          /\ SetTree(WriterPath(a), [Tree(a) EXCEPT !.head = Append(@, Tree(a).dirty), !.dirty = {}])
       \/ SetTree(WriterPath(a), [Tree(a) EXCEPT !.head = Parent, !.dirty = {}])
    /\ UNCHANGED writer

\* A completed session is frozen; a failed, blocked or cancelled one is quarantined.
SessionOver(a) ==
    /\ AtStep(a, {"session"})
    /\ GoTo(a, "revParse") \/ GoTo(a, "quarantined")
    /\ UNCHANGED worktree

(***************************************************************************)
(* freeze.                                                                  *)
(***************************************************************************)
Fails(a) == GoTo(a, "quarantined") /\ UNCHANGED worktree
Keeps(a, candidate, step) ==
    writer' = [writer EXCEPT ![a].step = step, ![a].candidate = candidate] /\ UNCHANGED worktree

\* Any of its Git commands may fail, in a worktree that is gone all of them do.
Freezing == {"revParse", "status", "commit", "reparse", "verify"}
GitFails(a) == AtStep(a, Freezing) /\ Fails(a)
Runs(a, step) == AtStep(a, {step}) /\ Tree(a).there

RevParse(a) == Runs(a, "revParse") /\ Keeps(a, Tree(a).head, "status")

\* Work that is not committed is, unless the session committed some itself.
Status(a) ==
    /\ Runs(a, "status")
    /\ \/ writer[a].candidate # Base /\ Keeps(a, writer[a].candidate, "verify")
       \/ writer[a].candidate = Base /\ Tree(a).dirty # {} /\ Keeps(a, Base, "commit")

CommitAll(a) ==
    /\ Runs(a, "commit") /\ Tree(a).dirty # {} /\ GoTo(a, "reparse")
    /\ SetTree(WriterPath(a), [Tree(a) EXCEPT !.head = Append(@, Tree(a).dirty), !.dirty = {}])

Reparse(a) == Runs(a, "reparse") /\ Tree(a).head # Base /\ Keeps(a, Tree(a).head, "verify")

\* Clean, and a descendant of the previous commit.
Verify(a) ==
    /\ Runs(a, "verify") /\ Tree(a).dirty = {} /\ IsPrefix(Base, writer[a].candidate)
    /\ GoTo(a, "frozen") /\ UNCHANGED worktree

QuarantineOwn(a) ==
    /\ AtStep(a, {"quarantined"})
    /\ SetTree(WriterPath(a), NoTree) /\ GoTo(a, "lost")

\* The execution is cancelled or its process ends: the worktree stays where it is.
WriterStops(a) ==
    /\ ~AtStep(a, {"idle", "frozen", "lost"})
    /\ GoTo(a, "lost") /\ UNCHANGED worktree

WorkspaceNext == \E a \in Activations :
    \/ ListPriorWriters(a) \/ QuarantinePrior(a) \/ RemoveOwn(a) \/ AddWorktree(a)
    \/ Work(a) \/ SessionOver(a)
    \/ GitFails(a) \/ RevParse(a) \/ Status(a) \/ CommitAll(a) \/ Reparse(a) \/ Verify(a)
    \/ QuarantineOwn(a) \/ WriterStops(a)

WorkspaceSpec == WorkspaceInit /\ [][WorkspaceNext]_workspaceVars

(***************************************************************************)
(* Properties.                                                              *)
(***************************************************************************)
\* A frozen candidate is new, continues the base, and holds the work of its own activation
\* only, whatever another activation removes, adds or commits in the meantime.
FrozenIsOwnWork == \A a \in Activations : AtStep(a, {"frozen"}) =>
    LET candidate == writer[a].candidate
    IN  /\ IsStrictPrefix(Base, candidate)
        /\ \A i \in 2..Len(candidate) : candidate[i] \subseteq {a}
====
