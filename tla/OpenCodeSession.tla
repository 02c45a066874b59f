---- MODULE OpenCodeSession ----
(***************************************************************************)
(* One session over an owned OpenCode server                               *)
(* (packages/coding-session/src/opencode2-adapter.ts): a prompt is queued, *)
(* the session's events and the permission requests arrive on two streams, *)
(* and the end of the turn is known twice, from the events and from the    *)
(* call that waits for the session to be idle.                             *)
(*                                                                         *)
(* Abstractions.  The text of a step is the number of the step, the usage  *)
(* is the number of steps it counts.  An event the adapter refuses is one  *)
(* kind.  An item (a tool call, a shell, reasoning) changes nothing here,  *)
(* but its callback may fail, as the callback of a text may.               *)
(***************************************************************************)
EXTENDS Integers, Sequences

CONSTANTS MaxSteps, MaxEvents, MaxLag
    \* bounds: the steps of the provider, the events it sends, those on their way

ASSUME OpenCodeAssumption == MaxSteps \in Nat /\ MaxEvents \in Nat /\ MaxLag \in Nat

VARIABLES
    opencode,   \* the server process, its session and what it sent
    events,     \* the session's event stream
    oc          \* the adapter

openCodeVars == <<opencode, events, oc>>

OpenCodeInit ==
    /\ opencode = [alive |-> TRUE, sent |-> 0, admitted |-> FALSE, step |-> 0, open |-> FALSE,
                   text |-> 0, stopped |-> FALSE, ask |-> "no"]
    /\ events = <<>>
    /\ oc = [stage |-> "starting", aborted |-> FALSE, admitted |-> FALSE,
             step |-> 0, hasText |-> FALSE, text |-> 0, usage |-> 0, handler |-> "stream",
             completion |-> "none", idle |-> FALSE, outcome |-> "none", settling |-> "no"]

Stage(stages) == oc.stage \in stages
Streaming == Stage({"prompting", "waiting", "observing"})

(***************************************************************************)
(* The provider.                                                            *)
(***************************************************************************)
Event(kind, step) == [kind |-> kind, step |-> step]

Emits(e, change) ==
    /\ opencode.alive /\ opencode.sent < MaxEvents /\ Len(events) < MaxLag /\ Streaming /\ opencode.ask # "asked"
    /\ opencode' = [change EXCEPT !.sent = @ + 1]
    /\ events' = Append(events, e)
    /\ UNCHANGED oc

ProviderAdmits ==
    ~opencode.admitted /\ Emits(Event("admitted", 0), [opencode EXCEPT !.admitted = TRUE])

ProviderSteps ==
    /\ opencode.admitted /\ ~opencode.stopped
    /\ LET step == opencode.step
       IN  \/ /\ ~opencode.open /\ step < MaxSteps
              /\ Emits(Event("started", step + 1), [opencode EXCEPT !.step = step + 1, !.open = TRUE])
           \/ opencode.open /\ Emits(Event("text", step), [opencode EXCEPT !.text = step])
           \/ opencode.open /\ Emits(Event("item", step), opencode)
           \/ opencode.open /\ Emits(Event("ended", step), [opencode EXCEPT !.open = FALSE])
           \/ opencode.open /\ Emits(Event("stop", step), [opencode EXCEPT !.open = FALSE, !.stopped = TRUE])
           \/ opencode.open /\ Emits(Event("failed", step), [opencode EXCEPT !.open = FALSE, !.stopped = TRUE])

ProviderErrs == Emits(Event("refused", 0), opencode)

\* A tool of an open step needs a permission; the step waits for the reply.
ProviderAsks ==
    /\ opencode.alive /\ opencode.open /\ opencode.ask = "no" /\ Streaming
    /\ opencode' = [opencode EXCEPT !.ask = "asked"]
    /\ UNCHANGED <<events, oc>>

ProviderDies ==
    /\ opencode.alive /\ opencode' = [opencode EXCEPT !.alive = FALSE]
    /\ UNCHANGED <<events, oc>>

(***************************************************************************)
(* complete and fail: the first one counts.                                 *)
(***************************************************************************)
Completes(a, completion) == [a EXCEPT !.completion = IF @ = "none" THEN completion ELSE @]

\* What a stream that ends or throws, or a handler that throws, becomes.
StreamFailure == IF oc.aborted THEN "cancellation" ELSE "transport"

(***************************************************************************)
(* processEvents.                                                           *)
(***************************************************************************)
OwnEvent(e) ==
    /\ e.kind # "refused"
    /\ oc.admitted \/ e.kind = "admitted"
    /\ e.kind \in {"text", "ended", "stop"} => e.step = oc.step

Handle(e) ==
    CASE e.kind = "admitted" -> [oc EXCEPT !.admitted = TRUE, !.handler = "callback"]
      [] e.kind = "started" -> [oc EXCEPT !.step = e.step, !.hasText = FALSE]
      [] e.kind = "text" -> [oc EXCEPT !.text = e.step, !.hasText = TRUE, !.handler = "callback"]
      [] e.kind = "stop" /\ ~oc.hasText -> [Completes(oc, "transport") EXCEPT !.handler = "ended"]
      [] e.kind \in {"ended", "stop"} /\ (e.kind = "stop" => oc.hasText) ->
            [oc EXCEPT !.usage = @ + 1, !.handler = IF e.kind = "stop" THEN "stop" ELSE "callback"]
      [] OTHER -> [oc EXCEPT !.handler = IF e.kind = "failed" THEN "failed" ELSE "callback"]

ProcessEvent ==
    /\ Streaming /\ oc.handler = "stream" /\ events # <<>>
    /\ events' = Tail(events)
    /\ oc' = IF OwnEvent(Head(events)) THEN Handle(Head(events))
             ELSE [Completes(oc, StreamFailure) EXCEPT !.handler = "ended"]
    /\ UNCHANGED opencode

EventCallbackReturns ==
    /\ Streaming /\ oc.handler \in {"callback", "stop", "failed"}
    /\ oc' = CASE oc.handler = "callback" -> [oc EXCEPT !.handler = "stream"]
               [] oc.handler = "stop" -> [Completes(oc, "stop") EXCEPT !.handler = "stream"]
               [] OTHER -> [Completes(oc, "provider") EXCEPT !.handler = "ended"]
    /\ UNCHANGED <<opencode, events>>

EventCallbackThrows ==
    /\ Streaming /\ oc.handler \in {"callback", "stop", "failed"}
    /\ oc' = [Completes(oc, IF oc.aborted THEN "cancellation" ELSE "provider") EXCEPT !.handler = "ended"]
    /\ UNCHANGED <<opencode, events>>

\* The stream ends with the server or the signal; after the terminal step that is no failure.
EventStreamEnds ==
    /\ Streaming /\ oc.handler = "stream"
    /\ (events = <<>> /\ ~opencode.alive) \/ oc.aborted
    /\ oc' = [Completes(oc, StreamFailure) EXCEPT !.handler = "ended"]
    /\ UNCHANGED <<opencode, events>>

(***************************************************************************)
(* processGlobalEvents: every permission is rejected, and ends the session. *)
(***************************************************************************)
RejectPermission ==
    /\ Streaming /\ opencode.ask = "asked"
    /\ opencode' = [opencode EXCEPT !.ask = "rejected"]
    /\ UNCHANGED <<events, oc>>

\* The reply is answered, refused, or times out.
PermissionEndsSession ==
    /\ Streaming /\ opencode.ask \in {"asked", "rejected"}
    /\ opencode' = [opencode EXCEPT !.ask = "over"]
    /\ oc' = Completes(oc, "authority")
    /\ UNCHANGED events

PermissionStreamEnds ==
    /\ Streaming /\ opencode.ask = "no" /\ (~opencode.alive \/ oc.aborted)
    /\ oc' = Completes(oc, StreamFailure)
    /\ UNCHANGED <<opencode, events>>

(***************************************************************************)
(* The run.                                                                 *)
(***************************************************************************)
Cleanup_(outcome) ==
    /\ oc' = [oc EXCEPT !.stage = "cleaning", !.outcome = outcome, !.settling = "asked"]
    /\ UNCHANGED <<opencode, events>>

Advance(from, to) ==
    /\ Stage({from}) /\ opencode.alive /\ oc' = [oc EXCEPT !.stage = to]
    /\ UNCHANGED <<opencode, events>>

\* Sandbox, process and health; the session; its streams; the prompt.
StartServer == Advance("starting", "creating")
CreateSession == Advance("creating", "subscribing")
Subscribe == Advance("subscribing", "prompting")
PromptAccepted == Advance("prompting", "waiting")

CallFails ==
    /\ Stage({"starting", "creating", "subscribing", "prompting", "waiting"})
    /\ Cleanup_(IF oc.aborted THEN "cancellation" ELSE "provider")

SessionIdle ==
    /\ Stage({"waiting"}) /\ opencode.stopped /\ opencode.alive /\ ~oc.aborted
    /\ oc' = [oc EXCEPT !.idle = TRUE]
    /\ UNCHANGED <<opencode, events>>

\* Fault: either sign of the end is enough.
TurnIsOver_ByEither == oc.idle \/ oc.completion = "stop"
TurnIsOver == oc.idle /\ oc.completion = "stop"

TurnSucceeds ==
    /\ Stage({"waiting"}) /\ TurnIsOver
    /\ oc' = [oc EXCEPT !.stage = "observing"]
    /\ UNCHANGED <<opencode, events>>

SessionFails == Stage({"waiting"}) /\ oc.completion \notin {"none", "stop"} /\ Cleanup_(oc.completion)

\* The observation of the end, whose callback may fail.
ResultReady ==
    /\ Stage({"observing"})
    /\ Cleanup_("result") \/ Cleanup_(IF oc.aborted THEN "cancellation" ELSE "provider")

\* The signal: the calls in flight are rejected, the turn is interrupted.
SessionAborted ==
    /\ ~oc.aborted /\ oc.stage \notin {"cleaning", "done"}
    /\ oc' = [oc EXCEPT !.aborted = TRUE]
    /\ UNCHANGED <<opencode, events>>

\* SIGTERM, SIGKILL, each with its wait; a failure to clean up replaces only a result.
SettleServer ==
    /\ Stage({"cleaning"})
    /\ \/ /\ opencode.alive
          /\ oc' = CASE oc.settling = "asked" -> [oc EXCEPT !.settling = "terminated"]
                     [] oc.settling = "terminated" -> [oc EXCEPT !.settling = "killed"]
                     [] OTHER -> [oc EXCEPT !.stage = "done", !.outcome = IF @ = "result" THEN "unsettled" ELSE @]
       \/ ~opencode.alive /\ oc' = [oc EXCEPT !.stage = "done"]
    /\ UNCHANGED <<opencode, events>>

OpenCodeNext ==
    \/ ProviderAdmits \/ ProviderSteps \/ ProviderErrs \/ ProviderAsks \/ ProviderDies
    \/ ProcessEvent \/ EventCallbackReturns \/ EventCallbackThrows \/ EventStreamEnds
    \/ RejectPermission \/ PermissionEndsSession \/ PermissionStreamEnds
    \/ StartServer \/ CreateSession \/ Subscribe \/ PromptAccepted \/ CallFails
    \/ SessionIdle \/ TurnSucceeds \/ SessionFails \/ ResultReady \/ SessionAborted \/ SettleServer

OpenCodeSpec == OpenCodeInit /\ [][OpenCodeNext]_openCodeVars

(***************************************************************************)
(* Properties.                                                              *)
(***************************************************************************)
\* A result is that of the provider's terminal step: its text, with the usage of every step
\* counted once, of a session that is over and a server that is gone.
OpenCodeResultIsTerminal ==
    oc.stage = "done" /\ oc.outcome = "result" =>
        /\ opencode.stopped /\ ~opencode.alive
        /\ oc.text = opencode.step /\ oc.usage = opencode.step
====
