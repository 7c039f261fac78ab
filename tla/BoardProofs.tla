----------------------------- MODULE BoardProofs -----------------------------
(***************************************************************************)
(* What every operation of the board preserves, for any set of tasks and   *)
(* any number of runs.  The modules that let processes call these          *)
(* operations cite the lemmas.                                             *)
(***************************************************************************)
EXTENDS Board, TLAPS

\* The board starts with every card ready and no run.
LEMMA BoardInitInv == ASSUME BoardInit PROVE BoardInv
BY BoardAssumption DEF BoardInit, BoardInv, BoardTypeOK, OpenRunHoldsCard, RunsNumbered,
   Owner, StillOwner, Columns, Outcomes, Runs, NoRun

\* A claim opens exactly one run, a new one.
LEMMA ClaimInv ==
  ASSUME BoardInv, NEW t \in Tasks, ClaimTask(t)
  PROVE  /\ BoardInv'
         /\ lastRun + 1 \in Runs
         /\ lastRun' = lastRun + 1
         /\ runs'[lastRun + 1].outcome = "open"
         /\ \A r \in Runs : r # lastRun + 1 => runs'[r] = runs[r]
<1>1. lastRun + 1 \in Runs /\ lastRun \in Nat
  BY BoardAssumption DEF BoardInv, BoardTypeOK, ClaimTask, Claimable, Runs
<1>2. BoardTypeOK'
  BY <1>1 DEF BoardInv, BoardTypeOK, ClaimTask, Columns, Outcomes, NoRun, Runs
<1>3. OpenRunHoldsCard'
  BY <1>1, BoardAssumption DEF BoardInv, BoardTypeOK, ClaimTask, Claimable, OpenRunHoldsCard,
     RunsNumbered, Owner, StillOwner, NoRun, Runs
<1>4. RunsNumbered'
  BY <1>1 DEF BoardInv, BoardTypeOK, ClaimTask, RunsNumbered, Runs
<1> QED
  BY <1>1, <1>2, <1>3, <1>4 DEF BoardInv, BoardTypeOK, ClaimTask

\* When the run that holds a card gives it up, that run is closed and no
\* other run is touched.
LEMMA MoveCardInv ==
  ASSUME BoardInv, NEW r \in Runs, Owner(r),
         NEW column \in Columns \ {"running"}, NEW outcome \in Outcomes \ {"none", "open"},
         MoveCard(r, column, outcome)
  PROVE  /\ BoardInv'
         /\ runs'[r].outcome = outcome
         /\ \A q \in Runs : q # r => runs'[q] = runs[q]
         /\ lastRun' = lastRun
<1>1. runs[r].task \in Tasks /\ runs[r].outcome = "open"
  BY DEF BoardInv, BoardTypeOK, OpenRunHoldsCard, Owner
<1>2. BoardTypeOK'
  BY <1>1 DEF BoardInv, BoardTypeOK, MoveCard, NoRun, Runs
<1>3. OpenRunHoldsCard'
  BY <1>1 DEF BoardInv, BoardTypeOK, OpenRunHoldsCard, MoveCard, Owner, StillOwner, NoRun, Runs
<1>4. RunsNumbered'
  BY <1>1, BoardAssumption DEF BoardInv, BoardTypeOK, RunsNumbered, MoveCard
<1> QED
  BY <1>2, <1>3, <1>4 DEF BoardInv, BoardTypeOK, MoveCard

\* A fenced write changes the board only for the run that holds the card.
LEMMA FinishRunInv ==
  ASSUME BoardInv, NEW r \in Runs,
         NEW column \in Columns \ {"running"}, NEW outcome \in Outcomes \ {"none", "open"},
         FinishRun(r, column, outcome)
  PROVE  /\ BoardInv'
         /\ runs'[r].outcome = IF Owner(r) THEN outcome ELSE runs[r].outcome
         /\ \A q \in Runs : q # r => runs'[q] = runs[q]
         /\ lastRun' = lastRun
<1>1. CASE Owner(r)
  BY <1>1, MoveCardInv DEF FinishRun
<1>2. CASE ~Owner(r)
  BY <1>2 DEF FinishRun, BoardInv, BoardTypeOK, OpenRunHoldsCard, RunsNumbered,
     Owner, StillOwner, boardVars
<1> QED BY <1>1, <1>2

\* A running card is held by the run it names.
LEMMA HolderOwns ==
  ASSUME BoardInv, NEW t \in Tasks, card[t].status = "running"
  PROVE  card[t].run \in Runs /\ Owner(card[t].run)
BY BoardAssumption DEF BoardInv, OpenRunHoldsCard, Owner, StillOwner

\* Recording a pid, by task and unfenced, moves no card and closes no run.
LEMMA RecordInv ==
  ASSUME BoardInv, NEW r \in Runs, runs[r].task \in Tasks, RecordWorkerPid(r)
  PROVE  BoardInv' /\ runs' = runs /\ lastRun' = lastRun
<1>1. BoardTypeOK'
  BY DEF BoardInv, BoardTypeOK, RecordWorkerPid
<1>2. OpenRunHoldsCard' /\ RunsNumbered'
  BY DEF BoardInv, BoardTypeOK, OpenRunHoldsCard, RunsNumbered, RecordWorkerPid, Owner, StillOwner
<1> QED BY <1>1, <1>2 DEF BoardInv, RecordWorkerPid

\* A card returned to the ready column was held by no run.
LEMMA RequeueInv ==
  ASSUME BoardInv, NEW t \in Tasks, Requeue(t)
  PROVE  BoardInv' /\ runs' = runs /\ lastRun' = lastRun
<1>1. BoardTypeOK'
  BY DEF BoardInv, BoardTypeOK, Requeue, Columns, NoRun, Runs
<1>2. OpenRunHoldsCard' /\ RunsNumbered'
  BY DEF BoardInv, BoardTypeOK, OpenRunHoldsCard, RunsNumbered, Requeue, Owner, StillOwner, NoRun
<1> QED BY <1>1, <1>2 DEF BoardInv, Requeue

\* Nothing is disturbed by a step that leaves the board alone.
LEMMA BoardStutter ==
  ASSUME BoardInv, UNCHANGED boardVars
  PROVE  BoardInv' /\ runs' = runs /\ lastRun' = lastRun
BY DEF BoardInv, BoardTypeOK, OpenRunHoldsCard, RunsNumbered, Owner, StillOwner, boardVars
=============================================================================
