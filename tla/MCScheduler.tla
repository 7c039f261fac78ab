----------------------------- MODULE MCScheduler -----------------------------
(* Instances of Scheduler for TLC. *)
EXTENDS Scheduler, TLC

CONSTANTS t1, t2, t3, b1, b2, a1, a2

\* All cards on one board, or the second on its own.
OneBoard == [t \in Tasks |-> b1]
TwoBoards == [t \in Tasks |-> IF t = t2 THEN b2 ELSE b1]

\* One card at a time per lane.
Single == [a \in Assignees |-> 1]

EveryFault == SchedulerFaultKinds
\* Failures the scheduler survives and reports to the board.
Survivable == {"board", "spawn", "record"}
\* Cards of one board and schedulers are interchangeable (safety runs only).
Interchangeable == Permutations(Tasks) \cup Permutations(Schedulers)
=============================================================================
