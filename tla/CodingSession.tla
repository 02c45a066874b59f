---- MODULE CodingSession ----
(***************************************************************************)
(* One Coding Session from request to observation: the facade              *)
(* (packages/coding-session/src/coding-session.ts) over the SDK adapter    *)
(* (codex-sdk-adapter.ts), with the archives of SessionArchive.tla.        *)
(* Several sessions of one process run concurrently.                       *)
(*                                                                         *)
(* Abstractions.  A usage is how much of the tokens it counts, 0 is none.  *)
(* A failure is its class.  What the schema and the normalizer make of a   *)
(* response is a choice, and so is what of the caller's signal and the     *)
(* deadline has fired when the code looks.  The stages between two awaits  *)
(* that touch neither the archive nor the result are one.                  *)
(***************************************************************************)
EXTENDS SessionArchive

CONSTANTS
    MaxUsage, MaxItems, \* bounds: [Sessions -> reports of usage, items] of one turn
    HasTransform        \* roleOutputTransform is configured

ASSUME SessionAssumption ==
    /\ MaxUsage \in [Sessions -> Nat] /\ MaxItems \in [Sessions -> Nat]
    /\ HasTransform \in BOOLEAN

VARIABLES
    session     \* [Sessions -> the call of run()]

sessionVars == <<archiveVars, session>>
Causes == {"signal", "deadline"}

\* usage and is are observedUsage and providerUsageCompleteness, finalized is turnFinalized.
NoOutcome == [status |-> "none", class |-> "none", usage |-> 0, is |-> "none"]
NewSession ==
    [step |-> "idle", usage |-> 0, is |-> "none", finalized |-> FALSE, outcome |-> NoOutcome]

SessionInit ==
    /\ ArchiveInit
    /\ session = [s \in Sessions |-> NewSession]

Step(s, step) == session[s].step = step
Goes(s, step) == session' = [session EXCEPT ![s].step = step]
KeepFiles == UNCHANGED <<disk, unwritable, closing, pruneLock, pass>>
KeepArchive == UNCHANGED archiveVars

\* The return of runProviderCaptured, and the archive.finish it leads to.
Ends(s, status, class, usage, is) ==
    /\ session' = [session EXCEPT ![s].step = "finishing",
          ![s].outcome = [status |-> status, class |-> class, usage |-> usage, is |-> is]]
    /\ Finish(s, status, usage, is)

\* The catch of runProviderCaptured: the deadline, the caller, then the failure itself.
Throws(s, class) ==
    \E fired \in SUBSET Causes :
        Ends(s, IF fired = {} THEN "failed" ELSE "cancelled",
             IF "deadline" \in fired THEN "timeout"
             ELSE IF fired # {} THEN "cancellation" ELSE class,
             session[s].usage, session[s].is)

(***************************************************************************)
(* The facade up to the adapter.                                            *)
(***************************************************************************)
BeginSession(s) ==
    /\ s \notin Corrupt /\ Step(s, "idle") /\ Goes(s, "begun")
    /\ Capture(s, NewRecord) /\ KeepFiles

StartSession(s) ==
    /\ Step(s, "begun") /\ Settled(s)
    /\ \/ Goes(s, "preparing") /\ KeepArchive
       \/ Ends(s, "failed", "timeout", 0, "none")
       \/ \E class \in {"timeout", "cancellation"} : Ends(s, "cancelled", class, 0, "none")

\* The profile, the MCP server and the adapter are resolved; the turn starts.
PrepareSession(s) ==
    /\ Step(s, "preparing")
    /\ \/ Goes(s, "turn") /\ Capture(s, record[s]) /\ KeepFiles
       \/ Throws(s, "configuration")

(***************************************************************************)
(* runStreamedTurn and observeUsage.                                        *)
(***************************************************************************)
\* reportUsage, seen by the facade and the archive.
Observes(s, usage, is) ==
    [session[s] EXCEPT !.usage = usage, !.is = IF is = "none" THEN @ ELSE is]

ItemCompleted(s) ==
    /\ Step(s, "turn") /\ record[s].size < MaxItems[s]
    /\ Capture(s, [record[s] EXCEPT !.size = @ + 1]) /\ KeepFiles
    /\ UNCHANGED session

ReportsArtifact(s) == ~session[s].finalized /\ session[s].usage < MaxUsage[s]

\* reportArtifactUsage, which reads what the provider has written so far.
ArtifactUsage(s) ==
    /\ Step(s, "turn") /\ ReportsArtifact(s)
    /\ session' = [session EXCEPT ![s] = Observes(s, session[s].usage + 1, "partial")]
    /\ Capture(s, WithUsage(record[s], session[s].usage + 1, "partial")) /\ KeepFiles

TurnCompleted(s) ==
    LET is == IF session[s].is = "partial" THEN "complete" ELSE "none"
    IN  /\ Step(s, "turn") /\ ~session[s].finalized
        /\ \E usage \in session[s].usage..MaxUsage[s] :
              /\ session' = [session EXCEPT ![s] = [Observes(s, usage, is) EXCEPT !.finalized = TRUE]]
              /\ Capture(s, WithUsage(record[s], usage, is))
        /\ KeepFiles

\* turn.failed, error, a stream that throws or an aborted one.
TurnFails(s) == Step(s, "turn") /\ Throws(s, "provider")

StreamEnds(s) ==
    /\ Step(s, "turn") /\ Goes(s, "output")
    /\ Capture(s, WithProviderResult(record[s], session[s].usage, session[s].is))
    /\ KeepFiles

(***************************************************************************)
(* The output: parsed, or transformed and parsed again.                     *)
(***************************************************************************)
EndsWith(s, status, class) == Ends(s, status, class, session[s].usage, session[s].is)

ParseOutput(s) ==
    /\ Step(s, "output")
    /\ \/ EndsWith(s, "completed", "none")
       \/ ~HasTransform /\ EndsWith(s, "failed", "configuration")
       \/ HasTransform /\ Goes(s, "normalizing") /\ KeepArchive

TransformOutput(s) ==
    /\ Step(s, "normalizing")
    /\ \/ EndsWith(s, "completed", "none")
       \/ EndsWith(s, "failed", "configuration")
       \/ Throws(s, "provider")

\* archive.finish returns to run(), which returns to its caller.
ReturnObservation(s) ==
    /\ Step(s, "finishing") /\ Finished(s)
    /\ session' = [session EXCEPT ![s] = [NewSession EXCEPT !.step = "done"]]

CrashSessions ==
    /\ \E s \in Sessions : session[s].step \notin {"idle", "done"}
    /\ ArchiveCrash
    /\ session' = [s \in Sessions |->
          IF session[s].step \in {"idle", "done"} THEN session[s] ELSE [NewSession EXCEPT !.step = "lost"]]

SessionStep(s) ==
    \/ BeginSession(s) \/ StartSession(s) \/ PrepareSession(s) \/ ItemCompleted(s) \/ ArtifactUsage(s)
    \/ TurnCompleted(s) \/ TurnFails(s) \/ StreamEnds(s) \/ ParseOutput(s) \/ TransformOutput(s)
    \/ ReturnObservation(s)

SessionNext ==
    \/ \E s \in Sessions :
          \/ SessionStep(s)
          \/ (ArchiveStep(s) \/ PersistFails(s) \/ Cleanup(s)) /\ UNCHANGED session
    \/ CrashSessions

SessionSpec == SessionInit /\ [][SessionNext]_sessionVars

(***************************************************************************)
(* Properties.                                                              *)
(***************************************************************************)
\* When a session reports, its archive is on disk and says what is reported: neither a late
\* persist of an older record, nor the retention pass of another session that saw it while it
\* waited for its turn, nor a partial usage behind the complete one comes in between.
ReportIsArchived ==
    [][\A s \in Sessions :
          session[s].step = "finishing" /\ session'[s].step = "done" /\ s \notin unwritable =>
            /\ Retained(s)
            /\ disk[s].status = session[s].outcome.status
            /\ disk[s].usage = session[s].outcome.usage
            /\ disk[s].usageIs = session[s].outcome.is]_sessionVars
====
