---- MODULE TaskObservation ----
(***************************************************************************)
(* How a Task is watched.  Its events are committed to its history, then   *)
(* dispatched one after the other to the transient listeners of the server *)
(* (packages/runtime/src/server.ts); a client pages through the history    *)
(* and reads the status between pages (followTask and taskEvidence of      *)
(* apps/cli/src/server-client.ts).                                         *)
(*                                                                         *)
(* Abstractions.  An event is its sequence, and the Task's state is that   *)
(* of its last event.  The scope of a listener is this Task.               *)
(***************************************************************************)
EXTENDS Integers, SequencesExt

CONSTANTS
    MaxTaskEvents,  \* bound: events of the Task
    SettledAfter,   \* the events that leave it terminal or waiting
    PageLimit,      \* events of a page, 200 in the code
    QueueLimit      \* events a listener holds, 64 in the code

ASSUME ObservationAssumption ==
    /\ MaxTaskEvents \in Nat /\ SettledAfter \subseteq 1..MaxTaskEvents
    /\ PageLimit \in Nat \ {0} /\ QueueLimit \in Nat \ {0}

VARIABLES
    history,    \* the last event committed
    dispatch,   \* eventDispatch: the events not dispatched yet
    lost,       \* the events whose dispatch failed
    listener,   \* a subscription or a wait
    reader      \* followTask or taskEvidence

observationVars == <<history, dispatch, lost, listener, reader>>

Closed == [mode |-> "none", open |-> FALSE, queue |-> <<>>, got |-> <<>>]

ObservationInit ==
    /\ history = 0 /\ dispatch = <<>> /\ lost = {}
    /\ listener = Closed
    /\ reader \in [mode : {"follow", "evidence"}, step : {"status"}, settled : {FALSE},
                   at : {0}, seen : {<<>>}]

TaskSettled == history \in SettledAfter

(***************************************************************************)
(* The authority and the hub.                                               *)
(***************************************************************************)
CommitEvent ==
    /\ history < MaxTaskEvents
    /\ history' = history + 1
    /\ dispatch' = Append(dispatch, history + 1)
    /\ UNCHANGED <<lost, listener, reader>>

\* TransientEventHub.publish: the listener that cannot take an event is closed.
\* Fault: it is kept.
Published_Dropping(l, e) ==
    IF l.open /\ Len(l.queue) < QueueLimit THEN [l EXCEPT !.queue = Append(@, e)] ELSE l

Published(l, e) ==
    IF ~l.open THEN l
    ELSE IF Len(l.queue) < QueueLimit THEN [l EXCEPT !.queue = Append(@, e)]
    ELSE [l EXCEPT !.open = FALSE]

DispatchEvent ==
    /\ dispatch # <<>> /\ dispatch' = Tail(dispatch)
    /\ listener' = Published(listener, Head(dispatch))
    /\ UNCHANGED <<history, lost, reader>>

\* The Task could not be looked up: the next event is dispatched.
DispatchFails ==
    /\ dispatch # <<>> /\ dispatch' = Tail(dispatch)
    /\ lost' = lost \cup {Head(dispatch)}
    /\ UNCHANGED <<history, listener, reader>>

Listen ==
    /\ listener = Closed
    /\ \E mode \in {"subscribe", "wait"} : listener' = [Closed EXCEPT !.mode = mode, !.open = TRUE]
    /\ UNCHANGED <<history, dispatch, lost, reader>>

\* A wait ends with its event.
TakeEvent ==
    /\ listener.open /\ listener.queue # <<>>
    /\ listener' = [listener EXCEPT !.queue = Tail(@), !.got = Append(@, Head(listener.queue)),
                                    !.open = listener.mode = "subscribe"]
    /\ UNCHANGED <<history, dispatch, lost, reader>>

\* The timeout of a wait, a client that leaves, the shutdown of the hub.
StopListening ==
    /\ listener.open /\ listener' = [listener EXCEPT !.open = FALSE]
    /\ UNCHANGED <<history, dispatch, lost, reader>>

(***************************************************************************)
(* The client that reads the history.                                       *)
(***************************************************************************)
Reads(r) == reader' = r /\ UNCHANGED <<history, dispatch, lost, listener>>

ReadStatus ==
    /\ reader.step = "status"
    /\ Reads([reader EXCEPT !.step = "events", !.settled = TaskSettled, !.at = history])

\* Fault: one page is all.
ReadsOn_Once(count) == FALSE
ReadsOn(count) == count = PageLimit

ReadPage ==
    LET after == Len(reader.seen)
        count == IF history - after < PageLimit THEN history - after ELSE PageLimit
    IN  /\ reader.step = "events"
        /\ Reads([reader EXCEPT !.seen = @ \o [i \in 1..count |-> after + i],
                                !.step = IF ReadsOn(count) THEN "events" ELSE "drained"])

\* A follower returns the status it read before, or polls again; the evidence reads it anew.
FollowEnds == reader.mode = "follow" /\ reader.settled
Drained ==
    /\ reader.step = "drained"
    /\ Reads([reader EXCEPT !.step =
           IF reader.mode = "evidence" \/ reader.settled THEN "done" ELSE "status"])

\* Its deadline, its timeout, its signal.
FollowStops ==
    /\ reader.mode = "follow" /\ reader.step \in {"status", "drained"} /\ ~FollowEnds
    /\ Reads([reader EXCEPT !.step = "stopped"])

ObservationNext ==
    \/ CommitEvent \/ DispatchEvent \/ DispatchFails
    \/ Listen \/ TakeEvent \/ StopListening
    \/ ReadStatus \/ ReadPage \/ Drained \/ FollowStops

ObservationSpec == ObservationInit /\ [][ObservationNext]_observationVars

(***************************************************************************)
(* Properties.                                                              *)
(***************************************************************************)
\* A listener gets the events in their order, each once, and misses none between the first
\* and the last it got but those the server failed to dispatch: it is closed instead.
ListenersSeeNoGap ==
    LET got == listener.got
    IN  got # <<>> =>
          /\ \A i \in 1..Len(got) - 1 : got[i] < got[i + 1]
          /\ (Head(got)..Last(got)) \ ToSet(got) \subseteq lost

\* A reader that ends has handed over every event, in order and once, up to the status it
\* first read: a settled status never comes without the events that led to it.
ReadersSeeTheStatusThrough == reader.step = "done" =>
    /\ \A i \in 1..Len(reader.seen) : reader.seen[i] = i
    /\ Len(reader.seen) >= reader.at
    /\ reader.mode = "follow" => reader.at \in SettledAfter
====
