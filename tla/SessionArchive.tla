---- MODULE SessionArchive ----
(***************************************************************************)
(* The host-local archives of Coding Sessions                              *)
(* (packages/coding-session/src/session-archive.ts): every session owns a  *)
(* writer, whose record is rewritten to one file as it grows, and whose    *)
(* end prunes the directory all sessions of the process share.             *)
(*                                                                         *)
(* Abstractions.  Sessions are numbered in the order of their creation;    *)
(* what a record holds is its size.  The persists a writer has queued all  *)
(* write the current record and are one; a persist renames a temporary     *)
(* file nobody reads, and is one step.                                     *)
(* Reading the directory is one step: the only other writers of a file     *)
(* that was listed renew the same archive.                                 *)
(***************************************************************************)
EXTENDS Integers, Sequences, FiniteSets

CONSTANTS
    Sessions,       \* 1..n
    Corrupt,        \* the sessions of an earlier process, whose files cannot be read
    Undeletable,    \* those whose file cannot be removed either
    MaxArchives,    \* retention: archives with their content
    MaxContent,     \* maxArchiveBytes, in items and responses
    MayFail,        \* the sessions whose writes may fail
    NoArchive

ASSUME ArchiveAssumption ==
    /\ Sessions \subseteq Nat /\ Corrupt \subseteq Sessions /\ Undeletable \subseteq Corrupt
    /\ MayFail \subseteq Sessions
    /\ MaxArchives \in Nat \ {0} /\ MaxContent \in Nat \ {0}

VARIABLES
    record,     \* [Sessions -> Record or NoArchive]: the writer's record in memory
    disk,       \* [Sessions -> Record, Tombstone, Unreadable or NoArchive]
    queued,     \* the sessions with a scheduled persist
    unwritable, \* the sessions with a writeFailure
    closing,    \* [Sessions -> the stage of finish()]
    pruneLock,  \* the sessions that prune or wait for it, in turn
    pass        \* the retention pass of the session at its head

archiveVars == <<record, disk, queued, unwritable, closing, pruneLock, pass>>

Unreadable == [status |-> "unreadable"]
Tombstone == [status |-> "pruned"]
NoPass == [todo |-> <<>>, live |-> 0]

ArchiveStatuses == {"completed", "failed", "cancelled"}
Completeness == {"none", "partial", "complete"}

ArchiveRecord ==
    [status : ArchiveStatuses, size : Nat, truncated : BOOLEAN, usage : Nat, usageIs : Completeness]

ASSUME NoArchiveAssumption == NoArchive \notin ArchiveRecord

NewRecord == [status |-> "failed", size |-> 0, truncated |-> FALSE, usage |-> 0, usageIs |-> "none"]

ArchiveInit ==
    /\ record = [s \in Sessions |-> NoArchive]
    /\ disk = [s \in Sessions |-> IF s \in Corrupt THEN Unreadable ELSE NoArchive]
    /\ queued = {} /\ unwritable = {}
    /\ closing = [s \in Sessions |-> "no"]
    /\ pruneLock = <<>> /\ pass = NoPass

Retained(s) == disk[s] # NoArchive /\ disk[s] # Tombstone
Settled(s) == s \notin queued

(***************************************************************************)
(* The setters of the writer: the record changes, a persist is scheduled.   *)
(***************************************************************************)
Capture(s, r) == record' = [record EXCEPT ![s] = r] /\ queued' = queued \cup {s}

WithUsage(r, usage, is) ==
    IF r.usageIs = "complete" /\ is = "partial" THEN r
    ELSE [r EXCEPT !.usage = usage, !.usageIs = IF is = "none" THEN @ ELSE is]

WithProviderResult(r, usage, is) ==
    [r EXCEPT !.size = @ + 1, !.usage = usage,
              !.usageIs = IF is = "none" THEN @ ELSE is]

\* finish: what the session reports goes into the record.
WithOutcome(r, status, usage, is) ==
    [WithUsage(r, IF usage = 0 THEN r.usage ELSE usage, is) EXCEPT
        !.status = status]

(***************************************************************************)
(* persistNow: the current record, within the bound, replaces the file.     *)
(***************************************************************************)
\* encodeBoundedRecord
Bounded(r) ==
    IF r.size <= MaxContent THEN r ELSE [r EXCEPT !.size = 0, !.truncated = TRUE]

Persist(s) ==
    /\ s \in queued /\ queued' = queued \ {s}
    /\ IF s \in unwritable THEN UNCHANGED <<record, disk>>
       ELSE /\ record' = [record EXCEPT ![s] = Bounded(@)]
            /\ disk' = [disk EXCEPT ![s] = Bounded(record[s])]
    /\ UNCHANGED <<unwritable, closing, pruneLock, pass>>

PersistFails(s) ==
    /\ s \in queued \cap MayFail /\ queued' = queued \ {s}
    /\ unwritable' = unwritable \cup {s}
    /\ UNCHANGED <<record, disk, closing, pruneLock, pass>>

(***************************************************************************)
(* finish: persist, wait for the turn, prune, persist again.                *)
(***************************************************************************)
Finish(s, status, usage, is) ==
    /\ Capture(s, WithOutcome(record[s], status, usage, is))
    /\ closing' = [closing EXCEPT ![s] = "storing"]
    /\ UNCHANGED <<disk, unwritable, pruneLock, pass>>

AwaitTurn(s) ==
    /\ closing[s] = "storing" /\ Settled(s)
    /\ closing' = [closing EXCEPT ![s] = "turn"]
    /\ pruneLock' = Append(pruneLock, s)
    /\ UNCHANGED <<record, disk, queued, unwritable, pass>>

HasTurn(s) == pruneLock # <<>> /\ Head(pruneLock) = s

\* Oldest first, without the session's own.
OthersOldestFirst(s) ==
    LET others == {a \in Sessions \ {s} : Retained(a)}
    IN  CHOOSE order \in [1..Cardinality(others) -> others] :
            \A i, j \in DOMAIN order : i < j => order[i] < order[j]

ReadDirectory(s) ==
    /\ closing[s] = "turn" /\ HasTurn(s)
    /\ closing' = [closing EXCEPT ![s] = "pruning"]
    /\ pass' = IF s \in unwritable THEN NoPass
               ELSE [todo |-> OthersOldestFirst(s), live |-> Cardinality({a \in Sessions : Retained(a)})]
    /\ UNCHANGED <<record, disk, queued, unwritable, pruneLock>>

Excess == pass.live > MaxArchives /\ pass.todo # <<>>

\* A tombstone for a readable archive; an unreadable file is removed.  Whatever fails is
\* left, and the next oldest is taken in its place.
Evict(s) ==
    LET a == Head(pass.todo)
    IN  /\ closing[s] = "pruning" /\ Excess
        /\ IF a \in Undeletable
           THEN UNCHANGED disk /\ pass' = [pass EXCEPT !.todo = Tail(@)]
           ELSE /\ disk' = [disk EXCEPT ![a] = IF @ = Unreadable THEN NoArchive ELSE Tombstone]
                /\ pass' = [todo |-> Tail(pass.todo), live |-> pass.live - 1]
        /\ UNCHANGED <<record, queued, unwritable, closing, pruneLock>>

\* The tombstones in excess go; then the record, with its new warnings, is stored again.
DropTombstones(s) ==
    LET stones == {a \in Sessions : disk[a] = Tombstone}
    IN  /\ closing[s] = "pruning" /\ ~Excess
        /\ \E kept \in SUBSET stones :
              /\ Cardinality(kept) = (IF s \in unwritable \/ Cardinality(stones) <= MaxArchives
                                      THEN Cardinality(stones) ELSE MaxArchives)
              /\ disk' = [a \in Sessions |-> IF a \in stones \ kept THEN NoArchive ELSE disk[a]]
        /\ closing' = [closing EXCEPT ![s] = "last"]
        /\ Capture(s, record[s])
        /\ UNCHANGED <<unwritable, pruneLock, pass>>

\* Fault: the next session's pass begins before the last persist.
Release_Early(s) == closing[s] = "last"
Release(s) == closing[s] = "last" /\ Settled(s)

Finished(s) ==
    /\ Release(s)
    /\ closing' = [closing EXCEPT ![s] = "done"]
    /\ pruneLock' = Tail(pruneLock) /\ pass' = NoPass
    /\ UNCHANGED <<record, disk, queued, unwritable>>

\* cleanupSessionArchives, for one archive that can be read, of a session that is over.
Cleanup(s) ==
    /\ disk[s] \notin {NoArchive, Unreadable} /\ closing[s] = "done"
    /\ disk' = [disk EXCEPT ![s] = NoArchive]
    /\ UNCHANGED <<record, queued, unwritable, closing, pruneLock, pass>>

\* The process ends; a temporary file is not an archive.
ArchiveCrash ==
    /\ record' = [s \in Sessions |-> NoArchive]
    /\ queued' = {} /\ unwritable' = {}
    /\ closing' = [s \in Sessions |-> IF closing[s] = "done" THEN "done" ELSE "no"]
    /\ pruneLock' = <<>> /\ pass' = NoPass
    /\ UNCHANGED disk

ArchiveStep(s) ==
    \/ Persist(s) \/ AwaitTurn(s) \/ ReadDirectory(s)
    \/ Evict(s) \/ DropTombstones(s)
====
