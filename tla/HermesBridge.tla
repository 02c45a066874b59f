---- MODULE HermesBridge ----
(***************************************************************************)
(* The bridge between the local server and one Hermes agent                *)
(* (apps/hermes-bridge/src/bridge.ts): it observes the Tasks through one   *)
(* subscription, reconciles after an outage, and sends attention hints     *)
(* through a webhook that coalesces what it cannot send at once.           *)
(*                                                                         *)
(* Abstractions.  A Task is its classification and its revision.  The      *)
(* calls of one reconciliation are one step, and so is an event with the   *)
(* read of its Task; a delivery ends with all its attempts.                *)
(***************************************************************************)
EXTENDS Integers, SequencesExt

CONSTANTS
    HermesTasks,
    Limit,          \* hermesBridgeObservationLimit, 200 in the code
    MaxRevision     \* bound: changes of a Task

ASSUME HermesAssumption ==
    /\ HermesTasks # {} /\ IsFiniteSet(HermesTasks)
    /\ Limit \in Nat \ {0} /\ MaxRevision \in Nat

VARIABLES
    usine,      \* the Tasks, and the events the subscription still holds
    bridge,     \* the fiber that consumes the events, and where it goes next
    tracked,    \* trackedTasks, least recently observed first
    hook,       \* the dispatcher
    unheard     \* the Tasks whose hints no delivery that began later has covered

hermesVars == <<usine, bridge, tracked, hook, unheard>>

Classes == {"none", "waiting", "blocked"}

\* A signal, the Tasks it makes the agent look at, and whether its delivery is waited for.
Nothing == [kind |-> "nothing", about |-> {}, awaited |-> FALSE]
Attention(t) == [kind |-> "attention", about |-> {t}, awaited |-> FALSE]
Reconciliation == [kind |-> "reconciled", about |-> HermesTasks, awaited |-> FALSE]
Announcement(kind) == [kind |-> kind, about |-> {}, awaited |-> TRUE]

HermesInit ==
    /\ usine = [tasks |-> [t \in HermesTasks |-> [class |-> "none", revision |-> 0]], events |-> <<>>]
    /\ bridge = [step |-> "starting", next |-> "connecting", unavailable |-> FALSE]
    /\ tracked = <<>>
    /\ hook = [queue |-> <<>>, active |-> FALSE, pending |-> FALSE, sending |-> Nothing]
    /\ unheard = {}

TaskChanges ==
    /\ \E t \in HermesTasks, class \in Classes :
          /\ usine.tasks[t].revision < MaxRevision
          /\ usine' = [tasks |-> [usine.tasks EXCEPT ![t] = [class |-> class, revision |-> @.revision + 1]],
                       events |-> IF bridge.next = "subscribed" THEN Append(usine.events, t) ELSE <<>>]
    /\ UNCHANGED <<bridge, tracked, hook, unheard>>

(***************************************************************************)
(* HermesWebhookDispatcher.                                                 *)
(***************************************************************************)
\* enqueue: while a signal is under way, one reconciliation stands for all that follows; a
\* full queue drops what it is offered.
Enqueued(h, signal) ==
    LET given == IF h.active THEN Reconciliation ELSE signal
    IN  IF h.pending \/ Len(h.queue) = 2 THEN h
        ELSE [h EXCEPT !.queue = Append(@, given), !.active = TRUE,
                       !.pending = given.kind = "reconciled"]

\* Does enqueue wait for the delivery of the signal?
Awaits(h, signal) == Enqueued(h, signal) # h /\ Last(Enqueued(h, signal).queue).awaited

\* Fault: a reconciliation counts as pending until it has been sent.
Taken_Pending(h) == [h EXCEPT !.queue = Tail(@), !.active = TRUE, !.sending = Head(h.queue)]
Taken(h) ==
    [h EXCEPT !.queue = Tail(@), !.active = TRUE, !.sending = Head(h.queue),
              !.pending = IF Head(h.queue).kind = "reconciled" THEN FALSE ELSE @]

TakeSignal ==
    /\ hook.sending = Nothing /\ hook.queue # <<>>
    /\ hook' = Taken(hook) /\ unheard' = unheard \ Head(hook.queue).about
    /\ UNCHANGED <<usine, bridge, tracked>>

\* Delivered, refused for good, or given up after its last attempt.
SignalSent ==
    /\ hook.sending # Nothing
    /\ hook' = [hook EXCEPT !.sending = Nothing, !.active = FALSE]
    /\ bridge' = IF hook.sending.awaited THEN [bridge EXCEPT !.step = bridge.next] ELSE bridge
    /\ UNCHANGED <<usine, tracked, unheard>>

(***************************************************************************)
(* observeTask, over what is remembered of the Tasks.                       *)
(***************************************************************************)
Known(memory, t) ==
    IF \E i \in DOMAIN memory : memory[i].task = t
    THEN (CHOOSE m \in ToSet(memory) : m.task = t)
    ELSE [task |-> t, class |-> "none", revision |-> 0]

\* rememberTask: the Task becomes the most recent one, the oldest beyond the limit is forgotten.
Remember(memory, m) ==
    LET others == SelectSeq(memory, LAMBDA k : k.task # m.task) \o <<m>>
    IN  IF Len(others) > Limit THEN Tail(others) ELSE others

Observation(t) ==
    LET now == usine.tasks[t]
    IN  [task |-> t, class |-> now.class, revision |-> IF now.class = "none" THEN 0 ELSE now.revision]

\* An event hints at what changed, a reconciliation at a Task that was not waiting before.
NewsOfEvent(memory, t) == Observation(t).class # "none" /\ Known(memory, t) # Observation(t)
NewsOfReconciliation(memory, t) == Observation(t).class = "waiting" /\ Known(memory, t).class # "waiting"

(***************************************************************************)
(* The fiber: startup, the subscription, the outages.                       *)
(***************************************************************************)
Fiber(step) == bridge.step = step
MoveTo(step) == bridge' = [bridge EXCEPT !.step = step, !.next = step]

\* observeTask of a reconciliation, on what is remembered, queued and unheard by then.
Observed(s, t) ==
    LET memory == Remember(s.memory, Observation(t))
    IN  IF NewsOfReconciliation(s.memory, t)
        THEN [memory |-> memory, hook |-> Enqueued(s.hook, Attention(t)), unheard |-> s.unheard \cup {t}]
        ELSE [memory |-> memory, hook |-> s.hook, unheard |-> s.unheard]

ObservedAll(s, list) ==
    LET seen[k \in 0..Len(list)] == IF k = 0 THEN s ELSE Observed(seen[k - 1], list[k])
    IN  seen[Len(list)]

Tracked(memory, t) == Remember(memory, Known(memory, t))

TrackedAll(list) == FoldLeft(Tracked, tracked, list)

\* The listed Tasks are tracked, and observed in the order of the list.
ObservedList(list) ==
    ObservedAll([memory |-> TrackedAll(list), hook |-> hook, unheard |-> unheard], list)

\* reconcile: then the other tracked ones are asked for and observed as they answer; one that
\* fails makes it fail, whichever others answer.
Reconcile(initial, succeeded, failed) ==
    \E listed \in SUBSET HermesTasks : \E list \in SetToSeqs(listed) :
        LET first == ObservedList(list)
            others == {t \in HermesTasks \ listed : \E m \in ToSet(first.memory) : m.task = t}
        IN  \E answered \in SUBSET others : \E rest \in SetToSeqs(answered) :
                LET after == ObservedAll(first, rest)
                    done == answered = others
                IN  /\ tracked' = after.memory
                    /\ hook' = IF initial /\ done THEN Enqueued(after.hook, Reconciliation) ELSE after.hook
                    /\ unheard' = after.unheard
                    /\ bridge' = IF done THEN succeeded ELSE failed

\* The Tasks cannot be listed.
NothingIsListed(failed) == bridge' = failed /\ UNCHANGED <<tracked, hook, unheard>>

Startup ==
    LET lost == [bridge EXCEPT !.step = "lost", !.next = "connecting"]
    IN  /\ Fiber("starting")
        /\ Reconcile(TRUE, [bridge EXCEPT !.step = "connecting"], lost) \/ NothingIsListed(lost)
        /\ UNCHANGED usine

\* notifyReconnected, on the way to the next step.
NotifyReconnected(next) ==
    LET reconnected == [bridge EXCEPT !.step = "reconnected", !.next = next]
        failed == [bridge EXCEPT !.step = next, !.next = next]
    IN  /\ \/ ~bridge.unavailable /\ MoveTo(next) /\ UNCHANGED <<tracked, hook, unheard>>
           \/ bridge.unavailable /\ (Reconcile(FALSE, reconnected, failed) \/ NothingIsListed(failed))
        /\ UNCHANGED usine

\* The pause of an outage is over; the subscription is ready, and holds what happens from then on.
Retry == Fiber("down") /\ NotifyReconnected("connecting")
Ready == Fiber("connecting") /\ NotifyReconnected("subscribed")

\* An announcement is enqueued, and the fiber waits for its delivery.
Announce(kind) ==
    /\ hook' = Enqueued(hook, Announcement(kind))
    /\ bridge' = [bridge EXCEPT !.unavailable = kind = "unavailable",
                                !.step = IF Awaits(hook, Announcement(kind)) THEN "announcing" ELSE bridge.next]

AnnounceReconnected == Fiber("reconnected") /\ Announce("reconnected") /\ UNCHANGED <<usine, tracked, unheard>>

HandleEvent ==
    LET t == Head(usine.events)
    IN  /\ Fiber("subscribed") /\ usine.events # <<>>
        /\ usine' = [usine EXCEPT !.events = Tail(@)]
        /\ tracked' = Remember(tracked, Observation(t))
        /\ hook' = IF NewsOfEvent(tracked, t) THEN Enqueued(hook, Attention(t)) ELSE hook
        /\ unheard' = IF NewsOfEvent(tracked, t) THEN unheard \cup {t} ELSE unheard
        /\ UNCHANGED bridge

\* There is no subscription, it ends or fails, or the Task of an event cannot be read.
StreamLost ==
    /\ bridge.step \in {"connecting", "subscribed"}
    /\ bridge' = [bridge EXCEPT !.step = "lost", !.next = "down"]
    /\ usine' = [usine EXCEPT !.events = <<>>]
    /\ UNCHANGED <<tracked, hook, unheard>>

AnnounceUnavailable ==
    /\ Fiber("lost")
    /\ IF bridge.unavailable THEN MoveTo(bridge.next) /\ UNCHANGED hook ELSE Announce("unavailable")
    /\ UNCHANGED <<usine, tracked, unheard>>

\* The MCP side tracks the Tasks it is asked for, and observes none of them.
TrackTask ==
    /\ \E t \in HermesTasks : tracked' = Tracked(tracked, t)
    /\ UNCHANGED <<usine, bridge, hook, unheard>>

HermesNext ==
    \/ TaskChanges \/ TakeSignal \/ SignalSent
    \/ Startup \/ Retry \/ Ready \/ AnnounceReconnected \/ HandleEvent \/ StreamLost \/ AnnounceUnavailable
    \/ TrackTask

HermesSpec == HermesInit /\ [][HermesNext]_hermesVars

(***************************************************************************)
(* Properties.                                                              *)
(***************************************************************************)
\* Coalescing loses no hint, and a full queue none either: until a delivery begins that makes
\* the agent look at the Task a hint was about, the queue holds a signal that will, its own or
\* a reconciliation.
NoHintIsForgotten == unheard \subseteq UNION {signal.about : signal \in ToSet(hook.queue)}
====
