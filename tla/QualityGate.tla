---- MODULE QualityGate ----
(***************************************************************************)
(* The checks and the review of a frozen candidate                         *)
(* (packages/quality-gate/src/quality-gate.ts) in their disposable         *)
(* checkouts (candidate-workspace.ts, withCheckout).  Two executions of    *)
(* one Task, an old one and its successor, may verify at the same time,    *)
(* the same candidate or two different ones.                               *)
(*                                                                         *)
(* Abstractions.  A command is its outcome and the commit it found in the  *)
(* checkout, which may be gone; its streams and their truncation, and the  *)
(* usage, archive and profile of a review, are left out.                   *)
(***************************************************************************)

CONSTANTS
    Verifiers, Candidates,  \* the executions; the commits they may verify
    AcceptanceChecks,       \* mandatoryAcceptanceCheckIds of the contract
    NoCommit

ASSUME GateAssumption == NoCommit \notin Candidates

VARIABLES
    checkout,   \* [Purposes \X Candidates -> the commit checked out at that path, or NoCommit]
    gate        \* [Verifiers -> the call of check or of reviewWithObservation]

gateVars == <<checkout, gate>>

Purposes == {"check", "review"}
NoResult == [status |-> "none", saw |-> {}, checks |-> {}]
AnyCommit == CHOOSE c \in Candidates : TRUE

GateInit ==
    /\ checkout = [p \in Purposes \X Candidates |-> NoCommit]
    /\ gate = [v \in Verifiers |->
          [step |-> "idle", purpose |-> "check", sha |-> AnyCommit, result |-> NoResult, passed |-> FALSE]]

\* Fault: the path does not name the commit.
CheckoutPath_ByPurpose(v) == <<gate[v].purpose, AnyCommit>>
CheckoutPath(v) == <<gate[v].purpose, gate[v].sha>>

Found(v) == checkout[CheckoutPath(v)]
In(v, step) == gate[v].step = step
Next_(v, step) == gate' = [gate EXCEPT ![v].step = step]
Result_(v, status) == gate' = [gate EXCEPT ![v].step = "leaving", ![v].result.status = status]

\* What a command or a session finds in the checkout when it starts.
Saw(v, g) == [g EXCEPT ![v].result.saw = @ \cup {Found(v)}]

(***************************************************************************)
(* withCheckout: the path is cleared, the commit is checked out, and the    *)
(* path is cleared again, whoever uses it.                                  *)
(***************************************************************************)
BeginCheck(v) ==
    /\ In(v, "idle")
    /\ \E c \in Candidates : gate' = [gate EXCEPT ![v].step = "clearing", ![v].sha = c]
    /\ UNCHANGED checkout

\* Only a passing check of the same commit is reviewed.
BeginReview(v) ==
    /\ In(v, "checked") /\ gate[v].passed
    /\ gate' = [gate EXCEPT ![v].step = "clearing", ![v].purpose = "review", ![v].result = NoResult]
    /\ UNCHANGED checkout

ClearPath(v) ==
    /\ In(v, "clearing") /\ Next_(v, "adding")
    /\ checkout' = [checkout EXCEPT ![CheckoutPath(v)] = NoCommit]

AddCheckout(v) ==
    /\ In(v, "adding")
    /\ \/ /\ Found(v) = NoCommit /\ Next_(v, gate[v].purpose)
          /\ checkout' = [checkout EXCEPT ![CheckoutPath(v)] = gate[v].sha]
       \/ Next_(v, "thrown") /\ UNCHANGED checkout

LeaveCheckout(v) ==
    /\ In(v, "leaving")
    /\ checkout' = [checkout EXCEPT ![CheckoutPath(v)] = NoCommit]
    /\ gate' = [gate EXCEPT ![v].step = IF gate[v].result.status = "cancelled" THEN "thrown"
                                        ELSE IF gate[v].purpose = "check" THEN "checked" ELSE "reviewed",
                            ![v].passed = @ \/ gate[v].result.status = "passed"]

(***************************************************************************)
(* check.                                                                   *)
(***************************************************************************)
ProjectCheck(v) ==
    /\ In(v, "check") /\ UNCHANGED checkout
    /\ \/ Result_(v, "failed")      \* no budget left, a failing command, a timeout
       \/ Next_(v, "unspawned")     \* no shell, or no directory to start it in
       \/ /\ Found(v) # NoCommit
          /\ gate' = [Saw(v, gate) EXCEPT ![v].step = "acceptance"]

\* checkoutDirectoryAvailable, which is asked afterwards.
BlamedOnShell(v) ==
    /\ In(v, "unspawned") /\ UNCHANGED checkout
    /\ Result_(v, IF Found(v) # NoCommit THEN "capability_blocked" ELSE "failed")

\* Every selected check gets a result; a verifier that is missing is one that is unavailable.
AcceptanceCheck(v) ==
    /\ In(v, "acceptance") /\ UNCHANGED checkout
    /\ \E id \in AcceptanceChecks \ {c[1] : c \in gate[v].result.checks},
          status \in {"passed", "failed", "unavailable"} :
              gate' = [Saw(v, gate) EXCEPT ![v].result.checks = @ \cup {<<id, status>>}]

CheckResult(v) ==
    /\ In(v, "acceptance") /\ UNCHANGED checkout
    /\ {c[1] : c \in gate[v].result.checks} = AcceptanceChecks
    /\ Result_(v, IF \A c \in gate[v].result.checks : c[2] = "passed" THEN "passed" ELSE "failed")

(***************************************************************************)
(* reviewWithObservation: an answer about another commit is inconclusive.   *)
(***************************************************************************)
Review(v) ==
    /\ In(v, "review") /\ UNCHANGED checkout
    /\ gate' = [Saw(v, gate) EXCEPT ![v].step = "answer"]

ReviewerAnswers(v) ==
    /\ In(v, "answer") /\ UNCHANGED checkout
    /\ \/ Result_(v, "no_output")
       \/ \E c \in Candidates, verdict \in {"approved", "changes_requested"} :
              Result_(v, IF c = gate[v].sha THEN verdict ELSE "inconclusive")

\* The caller's signal; the checkout is still removed, unless the process is gone too.
GateCancelled(v) ==
    /\ gate[v].step \in {"check", "unspawned", "acceptance", "review", "answer"}
    /\ Result_(v, "cancelled") \/ Next_(v, "thrown")
    /\ UNCHANGED checkout

QualityGateNext == \E v \in Verifiers :
    \/ BeginCheck(v) \/ BeginReview(v) \/ ClearPath(v) \/ AddCheckout(v) \/ LeaveCheckout(v)
    \/ ProjectCheck(v) \/ BlamedOnShell(v) \/ AcceptanceCheck(v) \/ CheckResult(v)
    \/ Review(v) \/ ReviewerAnswers(v) \/ GateCancelled(v)

QualityGateSpec == GateInit /\ [][QualityGateNext]_gateVars

(***************************************************************************)
(* Properties.                                                              *)
(***************************************************************************)
\* A check that passed, and a verdict, are about the commit they name: what ran for them never
\* found another candidate in the checkout, the project check found its own, and every
\* mandatory acceptance check passed.
VerdictsAreOfTheirCommit == \A v \in Verifiers :
    LET r == gate[v].result
    IN  /\ r.status \in {"passed", "approved", "changes_requested"} => r.saw \subseteq {gate[v].sha, NoCommit}
        /\ r.status = "passed" => /\ gate[v].sha \in r.saw
                                  /\ \A id \in AcceptanceChecks : <<id, "passed">> \in r.checks
        /\ r.status \in {"approved", "changes_requested"} => gate[v].passed
====
