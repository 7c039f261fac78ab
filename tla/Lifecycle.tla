----------------------------- MODULE Lifecycle -----------------------------
(***************************************************************************)
(* What becomes of a finished run: the normalized result of an adapter     *)
(* (result.py, adapters/command.py), and the board transition or exit code *)
(* lifecycle.py maps it to.  Everything here is a pure operator; the       *)
(* process that calls them is module Supervisor.                           *)
(***************************************************************************)
EXTENDS Integers

\* result.Status
Status == {"success", "needs_review", "blocked", "failed", "rate_limited",
           "cancelled", "timed_out", "unavailable"}

\* The exit codes Hermes' crash sweep understands, and the supervisor's own.
ExitOk          == 0
ExitFailed      == 1
ExitRateLimited == 75
ExitTerminal    == 78
ExitCancelled   == 143
ExitCodes == {ExitOk, ExitFailed, ExitRateLimited, ExitTerminal, ExitCancelled}

\* The two fields of a lane that choose the transition.
Lanes == [on_success : {"complete", "review"}, on_failure : {"block", "fail"}]

\* The statuses an adapter can report for an execution nobody stopped: the
\* command adapter knows an exit code and the tail of the output; an ACP
\* agent may also report a structured status, refuse, or fail to sign in.
CommandResult(code, limited) ==
  IF code = 0 THEN "success" ELSE IF limited THEN "rate_limited" ELSE "failed"

CommandStatuses == {CommandResult(code, limited) : code \in {0, 1}, limited \in BOOLEAN}

AcpStatuses == CommandStatuses \cup {"needs_review", "blocked", "unavailable"}

(***************************************************************************)
(* lifecycle.apply without the write itself: the column the card is to     *)
(* move to ("none" for no lifecycle write) and the exit code when nothing  *)
(* gets written.  The reason and the kind of a block are left out.         *)
(***************************************************************************)
\* Mutant: a refused write still reports success.
WriteAlwaysOk(to) == [to |-> to, code |-> ExitOk]

Write(to)     == [to |-> to, code |-> ExitFailed]
NoWrite(code) == [to |-> "none", code |-> code]

\* Mutant: an exit code Hermes knows nothing of.
FailureCodeUnknown(status) ==
  CASE status = "rate_limited" -> ExitRateLimited
    [] status = "unavailable"  -> ExitTerminal
    [] OTHER                   -> 2

FailureCode(status) ==
  CASE status = "rate_limited" -> ExitRateLimited
    [] status = "unavailable"  -> ExitTerminal
    [] OTHER                   -> ExitFailed

\* Mutant: failures are left to the exit code in both modes.
PlanExitOnly(lane, status, pidTracked) ==
  CASE status = "cancelled" -> NoWrite(ExitCancelled)
    [] status = "success" -> Write(IF lane.on_success = "review" THEN "review" ELSE "done")
    [] status = "needs_review" -> Write("review")
    [] status = "blocked" -> Write("blocked")
    [] status \in {"failed", "timed_out"} /\ lane.on_failure = "block" -> Write("blocked")
    [] OTHER -> NoWrite(FailureCode(status))

Plan(lane, status, pidTracked) ==
  CASE status = "cancelled" -> NoWrite(ExitCancelled)
    [] status = "success" -> Write(IF lane.on_success = "review" THEN "review" ELSE "done")
    [] status = "needs_review" -> Write("review")
    [] status = "blocked" -> Write("blocked")
    [] status \in {"failed", "timed_out"} /\ lane.on_failure = "block" -> Write("blocked")
    [] OTHER -> IF pidTracked THEN NoWrite(FailureCode(status)) ELSE Write("blocked")
=============================================================================
