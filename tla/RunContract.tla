---------------------------- MODULE RunContract ----------------------------
(***************************************************************************)
(* What the runtime promises the board about its runs, with no processes,  *)
(* signals or files in it: a run gets at most one worker, the worker comes *)
(* before the verdict, and the verdict comes from the run that holds the   *)
(* card, after its worker is down.  A run may also lose its card at any    *)
(* time, and a worker may then outlive the claim.                          *)
(***************************************************************************)
EXTENDS Board

VARIABLE worker   \* of every run: "idle", "up" or "down"

contractVars == <<card, runs, lastRun, worker>>

ContractInit ==
  /\ BoardInit
  /\ worker = [r \in Runs |-> "idle"]

Take(t) == ClaimTask(t) /\ UNCHANGED worker

\* Not "by the owner": the claim may be lost between check and launch.
StartWorker(r) ==
  /\ runs[r].outcome \notin {"none"} \cup Finished
  /\ worker[r] = "idle"
  /\ worker' = [worker EXCEPT ![r] = "up"]
  /\ UNCHANGED boardVars

StopWorker(r) ==
  /\ worker[r] = "up"
  /\ worker' = [worker EXCEPT ![r] = "down"]
  /\ UNCHANGED boardVars

GiveVerdict(r, column) ==
  /\ Owner(r) /\ worker[r] # "up"
  /\ MoveCard(r, column, column)
  /\ UNCHANGED worker

\* Reclaimed, booked as crashed, or blocked for want of a supervisor.
LoseCard(r, column, outcome) ==
  /\ Owner(r)
  /\ MoveCard(r, column, outcome)
  /\ UNCHANGED worker

Record(r) == runs[r].task # NoTask /\ RecordWorkerPid(r) /\ UNCHANGED worker

Return(t) == Requeue(t) /\ UNCHANGED worker

ContractNext ==
  \/ \E t \in Tasks : Take(t) \/ Return(t)
  \/ \E r \in Runs :
       \/ StartWorker(r) \/ StopWorker(r) \/ Record(r)
       \/ \E column \in Finished : GiveVerdict(r, column)
       \/ LoseCard(r, "ready", "reclaimed")
       \/ LoseCard(r, "blocked", "unspawned")
       \/ \E column \in {"ready", "blocked"} : LoseCard(r, column, "crashed")

ContractSpec == ContractInit /\ [][ContractNext]_contractVars
=============================================================================
