---- MODULE AppServerSession ----
(***************************************************************************)
(* One turn over the Codex App Server                                      *)
(* (packages/coding-session/src/codex-app-server.ts): the child process    *)
(* writes lines, the client queues a bounded number of them, one fiber     *)
(* handles them in turn and waits for the session's callbacks, the other   *)
(* starts the thread and the turn and waits for its end.                   *)
(*                                                                         *)
(* Abstractions.  The text of the response is the number of its parts, the *)
(* usage that of the last report.  A line the client refuses, whatever it  *)
(* is (malformed, an error, a request, a response to another request), is  *)
(* one kind, and so are the events of another thread or turn.  Which of    *)
(* two fibers that can both continue does so first is open.                *)
(***************************************************************************)
EXTENDS Integers, Sequences

CONSTANTS
    MaxLines,       \* bound: lines of the child
    MessageBound    \* the capacity of the queue, 64 in the code

ASSUME AppServerAssumption == MaxLines \in Nat /\ MessageBound \in Nat \ {0}

VARIABLES
    provider,   \* the child and what it has said
    messages,   \* the queue
    app         \* the client

appVars == <<provider, messages, app>>

NoText == [text |-> 0, usage |-> 0]

AppInit ==
    /\ provider = [alive |-> TRUE, lines |-> 0, answered |-> 0, said |-> NoText,
                   refused |-> FALSE, final |-> NoText, completed |-> FALSE]
    /\ messages = <<>>
    /\ app = [asked |-> 1, current |-> TRUE, answer |-> "none",
              thread |-> FALSE, turn |-> FALSE, active |-> FALSE, turns |-> 0, said |-> NoText,
              handler |-> "loop", terminal |-> "none", result |-> NoText,
              closed |-> FALSE, interrupted |-> FALSE, outcome |-> "running", settling |-> "no"]

Running == app.outcome = "running"

(***************************************************************************)
(* The client's end of the transport.                                       *)
(***************************************************************************)
\* failTerminal: the first outcome of the turn stands; the transport is destroyed.
FailTerminal(a, class) ==
    [a EXCEPT !.terminal = IF @ = "none" THEN class ELSE @,
              !.answer = IF a.current THEN "failed" ELSE @, !.current = FALSE, !.closed = TRUE]

\* Fault: what does not fit is dropped.
Enqueue_Drops(m) ==
    /\ messages' = IF app.closed \/ Len(messages) >= MessageBound THEN messages ELSE Append(messages, m)
    /\ UNCHANGED app

Enqueue(m) ==
    IF app.closed THEN UNCHANGED <<messages, app>>
    ELSE IF Len(messages) < MessageBound THEN messages' = Append(messages, m) /\ UNCHANGED app
    ELSE app' = FailTerminal(app, "provider") /\ UNCHANGED messages

(***************************************************************************)
(* The child: it may say anything, and is believed only when it makes sense.*)
(***************************************************************************)
Line(kind, said) == [kind |-> kind, said |-> said]

Says(m, change) ==
    /\ provider.alive /\ provider.lines < MaxLines
    /\ provider' = [change EXCEPT !.lines = @ + 1]
    /\ Enqueue(m)

ServerAnswers ==
    /\ provider.answered < app.asked
    /\ \E kind \in {"response", "refusal"} :
          Says(Line(kind, NoText), [provider EXCEPT !.answered = app.asked])

\* The turn's events: the parts of the answer, the items that repeat it, the usage.
ServerReports ==
    /\ app.asked = 3
    /\ \/ Says(Line("threadStarted", NoText), provider)
       \/ Says(Line("turnStarted", NoText), provider)
       \/ Says(Line("delta", NoText), [provider EXCEPT !.said.text = @ + 1])
       \/ Says(Line("item", [provider.said EXCEPT !.text = @ + 1]), [provider EXCEPT !.said.text = @ + 1])
       \/ Says(Line("usage", [provider.said EXCEPT !.usage = @ + 1]), [provider EXCEPT !.said.usage = @ + 1])

ServerEndsTurn ==
    /\ app.asked = 3 /\ ~provider.completed
    /\ \E kind \in {"completed", "unsuccessful"} :
          Says(Line(kind, NoText),
               [provider EXCEPT !.completed = (kind = "completed" /\ ~provider.refused), !.final = provider.said])

ServerErrs == \E kind \in {"refused", "foreign"} :
    Says(Line(kind, NoText), [provider EXCEPT !.refused = TRUE])

ServerExits ==
    /\ provider.alive
    /\ provider' = [provider EXCEPT !.alive = FALSE]
    /\ Enqueue(Line("gone", NoText))

(***************************************************************************)
(* processMessages.                                                         *)
(***************************************************************************)
Identified == app.thread /\ app.turn

\* A message that is not accepted ends the loop and the turn.
Accepted(m) ==
    CASE m.kind \in {"response", "refusal"} -> app.current
      [] m.kind = "threadStarted" -> app.thread
      [] m.kind = "turnStarted" -> Identified /\ app.turns = 0
      [] m.kind \in {"delta", "item", "usage", "completed", "unsuccessful"} -> Identified
      [] OTHER -> FALSE

Handled(m) ==
    CASE m.kind \in {"response", "refusal"} ->
            [app EXCEPT !.current = FALSE, !.answer = IF m.kind = "response" THEN "ok" ELSE "failed"]
      [] m.kind = "threadStarted" -> [app EXCEPT !.handler = "callback"]
      [] m.kind = "turnStarted" -> [app EXCEPT !.turns = 1, !.handler = "callback"]
      [] m.kind = "delta" -> [app EXCEPT !.said.text = @ + 1]
      [] m.kind = "item" -> [app EXCEPT !.said.text = m.said.text, !.handler = "callback"]
      [] m.kind = "usage" -> [app EXCEPT !.said.usage = m.said.usage, !.handler = "callback"]
      [] OTHER -> [app EXCEPT !.active = FALSE, !.handler = m.kind]

ProcessMessage ==
    /\ Running /\ app.handler = "loop" /\ messages # <<>>
    /\ messages' = Tail(messages)
    /\ app' = IF Accepted(Head(messages)) THEN Handled(Head(messages))
              ELSE [FailTerminal(app, IF Head(messages).kind = "gone" THEN "provider" ELSE "transport")
                    EXCEPT !.handler = "ended"]
    /\ UNCHANGED provider

\* What the loop does after the callback of a message.
CallbackReturns ==
    /\ Running /\ app.handler \in {"callback", "completed", "unsuccessful"}
    /\ app' = CASE app.handler = "callback" -> [app EXCEPT !.handler = "loop"]
                [] app.handler = "completed" /\ app.terminal = "none" ->
                      [app EXCEPT !.handler = "loop", !.terminal = "result", !.result = app.said]
                [] app.handler = "completed" /\ app.terminal # "none" -> [app EXCEPT !.handler = "loop"]
                [] OTHER -> [FailTerminal(app, "provider") EXCEPT !.handler = "ended"]
    /\ UNCHANGED <<provider, messages>>

CallbackThrows ==
    /\ Running /\ app.handler \in {"callback", "completed", "unsuccessful"}
    /\ app' = [FailTerminal(app, "provider") EXCEPT !.handler = "ended"]
    /\ UNCHANGED <<provider, messages>>

(***************************************************************************)
(* The fiber of the turn.                                                   *)
(***************************************************************************)
\* The scope is left: the transport is closed, the child is awaited.
Leaves(outcome) ==
    /\ app' = [app EXCEPT !.outcome = outcome, !.closed = TRUE, !.settling = "closed",
                          !.interrupted = outcome = "cancellation" /\ app.active /\ ~app.closed]
    /\ UNCHANGED <<provider, messages>>

NextRequest ==
    /\ Running /\ app.answer = "ok"
    /\ \/ Leaves("transport")   \* the response is not what was asked for
       \/ /\ ~app.closed \/ app.asked = 3
          /\ app' = [app EXCEPT !.answer = "none", !.thread = app.asked >= 2, !.turn = app.asked = 3,
                                !.active = app.asked = 3,
                                !.asked = IF @ = 3 THEN 3 ELSE @ + 1, !.current = app.asked < 3]
          /\ UNCHANGED <<provider, messages>>
       \/ app.closed /\ app.asked < 3 /\ Leaves("provider")

RequestFails == Running /\ app.answer = "failed" /\ Leaves("provider")

TurnEnds == Running /\ Identified /\ app.terminal # "none" /\ Leaves(app.terminal)

\* The caller's signal interrupts both fibers, and the turn when it is under way.
AppAborted == Running /\ Leaves("cancellation")

(***************************************************************************)
(* settleChild: end of input, SIGTERM, SIGKILL, each with its wait.         *)
(***************************************************************************)
Escalate ==
    /\ provider.alive
    /\ \/ app.settling = "closed" /\ app' = [app EXCEPT !.settling = "terminated"]
       \/ app.settling = "terminated" /\ app' = [app EXCEPT !.settling = "killed"]
       \/ app.settling = "killed" /\ app' = [app EXCEPT !.settling = "done", !.outcome = "unsettled"]
    /\ UNCHANGED <<provider, messages>>

ChildSettled ==
    /\ app.settling \in {"closed", "terminated", "killed"} /\ ~provider.alive
    /\ app' = [app EXCEPT !.settling = "done"]
    /\ UNCHANGED <<provider, messages>>

AppNext ==
    \/ ServerAnswers \/ ServerReports \/ ServerEndsTurn \/ ServerErrs \/ ServerExits
    \/ ProcessMessage \/ CallbackReturns \/ CallbackThrows
    \/ NextRequest \/ RequestFails \/ TurnEnds \/ AppAborted
    \/ Escalate \/ ChildSettled

AppSpec == AppInit /\ [][AppNext]_appVars

(***************************************************************************)
(* Properties.                                                              *)
(***************************************************************************)
\* A result is the whole of its own turn: the child had completed it, nothing it said before
\* was refused, dropped by the queue or handled after the end, and the child is gone.
AppResultIsWhole ==
    app.outcome = "result" /\ app.settling = "done" =>
        provider.completed /\ app.result = provider.final /\ ~provider.alive
====
