------------------------------- MODULE Board -------------------------------
(***************************************************************************)
(* The Hermes kanban board as the runtime uses it (hermes_api.py).  The    *)
(* kernel itself is not part of the repository; what follows is how its    *)
(* functions behave towards this code: claim_task is a compare-and-swap    *)
(* that opens a new run, every lifecycle write carries the run id it is    *)
(* meant for, recording the worker pid does not.                           *)
(*                                                                         *)
(* A claim's lock ("<host>:<pid>:wr-<uuid>", new_claimer) is unique to the *)
(* claim that made it, so it is identified with the run the claim opened.  *)
(***************************************************************************)
EXTENDS Integers, FiniteSets

CONSTANTS Tasks,    \* the cards
          NoTask,   \* the task of a run that does not exist yet
          MaxRuns,  \* bound: how many runs may be opened in all
          PidTracked  \* hermes_api.pid_tracking_supported(); FALSE is claim-only mode

ASSUME BoardAssumption ==
  MaxRuns \in Nat /\ NoTask \notin Tasks /\ PidTracked \in BOOLEAN

NoRun == 0
Runs  == 1..MaxRuns

VARIABLES card,     \* [status, run, pid] of every task; pid = the run whose supervisor is recorded
          runs,     \* [task, outcome] of every run
          lastRun   \* the id of the newest run

boardVars == <<card, runs, lastRun>>

Columns  == {"ready", "running", "done", "review", "blocked"}
Finished == {"done", "review", "blocked"}
Outcomes == {"none", "open", "reclaimed", "crashed", "unspawned"} \cup Finished

BoardTypeOK ==
  /\ card \in [Tasks -> [status : Columns, run : Runs \cup {NoRun}, pid : Runs \cup {NoRun}]]
  /\ runs \in [Runs -> [task : Tasks \cup {NoTask}, outcome : Outcomes]]
  /\ lastRun \in 0..MaxRuns

BoardInit ==
  /\ card = [t \in Tasks |-> [status |-> "ready", run |-> NoRun, pid |-> NoRun]]
  /\ runs = [r \in Runs |-> [task |-> NoTask, outcome |-> "none"]]
  /\ lastRun = 0

-----------------------------------------------------------------------------
\* hermes_api.still_owner: running, under this claim's lock and this run.
StillOwner(t, r) == card[t].status = "running" /\ card[t].run = r
Owner(r) == runs[r].task # NoTask /\ StillOwner(runs[r].task, r)

\* Mutant: a claim keeps the pid somebody recorded for an earlier run.
ClaimTaskKeepsPid(t) ==
  LET r == lastRun + 1 IN
  /\ card[t].status = "ready" /\ r \in Runs
  /\ lastRun' = r
  /\ card' = [card EXCEPT ![t].status = "running", ![t].run = r]
  /\ runs' = [runs EXCEPT ![r] = [task |-> t, outcome |-> "open"]]

\* kb.claim_task: the CAS on a ready card, and the run it opens.
Claimable(t) == card[t].status = "ready" /\ lastRun < MaxRuns
ClaimTask(t) ==
  LET r == lastRun + 1 IN
  /\ Claimable(t)
  /\ lastRun' = r
  /\ card' = [card EXCEPT ![t] = [status |-> "running", run |-> r, pid |-> NoRun]]
  /\ runs' = [runs EXCEPT ![r] = [task |-> t, outcome |-> "open"]]

\* The card of run r leaves "running" for a column, and the run is closed.
MoveCard(r, column, outcome) ==
  /\ card' = [card EXCEPT ![runs[r].task] =
                [status |-> column, run |-> NoRun, pid |-> NoRun]]
  /\ runs' = [runs EXCEPT ![r].outcome = outcome]
  /\ UNCHANGED lastRun

\* Mutant: no expected_run_id.
FinishRunUnfenced(r, column, outcome) == MoveCard(r, column, outcome)

\* complete / request_review / block with expected_run_id = r: refused once
\* the card has moved on.  The caller learns which it was from Owner(r).
FinishRun(r, column, outcome) ==
  IF Owner(r) THEN MoveCard(r, column, outcome) ELSE UNCHANGED boardVars

\* record_worker_pid (_set_worker_pid): by task, fenced by nothing.
RecordWorkerPid(r) ==
  /\ card' = IF PidTracked THEN [card EXCEPT ![runs[r].task].pid = r] ELSE card
  /\ UNCHANGED <<runs, lastRun>>

\* Hermes or an operator moves a card that no run holds back to "ready".
Requeue(t) ==
  /\ card[t].status \in {"review", "blocked"}
  /\ card' = [card EXCEPT ![t] = [status |-> "ready", run |-> NoRun, pid |-> NoRun]]
  /\ UNCHANGED <<runs, lastRun>>
-----------------------------------------------------------------------------
Verdict(r) == runs[r].outcome \in Finished

\* A run is open exactly while its card is running under it: claims, fenced
\* writes, reclaims and crash bookings never leave a card running without
\* an open run, nor two open runs of one card.
OpenRunHoldsCard ==
  /\ \A r \in Runs : runs[r].outcome = "open" <=> Owner(r)
  /\ \A t \in Tasks : card[t].status = "running" =>
       card[t].run \in Runs /\ runs[card[t].run].task = t

\* Run ids are handed out in order, and only a claim hands one out.
RunsNumbered ==
  \A r \in Runs :
    IF r > lastRun THEN runs[r] = [task |-> NoTask, outcome |-> "none"]
                   ELSE runs[r].task \in Tasks /\ runs[r].outcome # "none"

BoardInv == BoardTypeOK /\ OpenRunHoldsCard /\ RunsNumbered
=============================================================================
