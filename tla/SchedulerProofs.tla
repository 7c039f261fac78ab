---------------------------- MODULE SchedulerProofs ----------------------------
(***************************************************************************)
(* The scheduler's claims, for any number of schedulers, boards, lanes,    *)
(* cards and runs.                                                         *)
(***************************************************************************)
EXTENDS Scheduler, BoardProofs, FiniteSetTheorems

-----------------------------------------------------------------------------
(***************************************************************************)
(* The board under the schedulers                                          *)
(***************************************************************************)
\* A run once opened stays a run of its card.
RunsStay == lastRun' >= lastRun /\ \A r \in Runs : r <= lastRun => runs'[r].task = runs[r].task

\* A run that was opened is some card's.
LEMMA RunHasTask == ASSUME BoardInv, NEW r \in Runs, r <= lastRun PROVE runs[r].task \in Tasks
BY DEF BoardInv, RunsNumbered, BoardTypeOK, Runs

\* A transition out of running keeps the board consistent, and the runs their cards.
LEMMA MoveStep ==
  ASSUME BoardInv, NEW r \in Runs, Owner(r),
         NEW column \in Columns \ {"running"}, NEW outcome \in Outcomes \ {"none", "open"},
         MoveCard(r, column, outcome)
  PROVE  BoardInv' /\ RunsStay
<1>1. BoardInv' /\ lastRun' = lastRun
  BY MoveCardInv
<1>2. \A q \in Runs : runs'[q].task = runs[q].task
  BY DEF BoardInv, BoardTypeOK, MoveCard
<1> QED BY <1>1, <1>2 DEF RunsStay, BoardInv, BoardTypeOK

\* So does every step: claims open runs, all else only moves cards.
LEMMA BoardStep ==
  ASSUME SchedulerInv, [Next]_vars
  PROVE  BoardInv' /\ RunsStay
<1> USE DEF SchedulerInv
<1>0. CASE UNCHANGED boardVars
  BY <1>0, BoardStutter DEF RunsStay, BoardInv, BoardTypeOK
<1>1. ASSUME NEW s \in Schedulers, ClaimWon(s) PROVE BoardInv' /\ RunsStay
  <2>1. PICK t \in ready[s] : ClaimTask(t)
    BY <1>1 DEF ClaimWon
  <2>2. t \in Tasks
    BY <2>1 DEF TypeOK, SchedulerTypeOK
  <2>3. BoardInv' /\ lastRun' = lastRun + 1 /\ \A r \in Runs : r # lastRun + 1 => runs'[r] = runs[r]
    BY <2>1, <2>2, ClaimInv
  <2> QED BY <2>3 DEF RunsStay, BoardInv, BoardTypeOK, Runs
<1>2. ASSUME NEW s \in Schedulers, SpawnFails(s) PROVE BoardInv' /\ RunsStay
  <2>1. CASE UNCHANGED boardVars
    BY <2>1, <1>0
  <2>2. CASE FinishRun(current[s], "blocked", "unspawned")
    <3>1. current[s] \in Runs
      BY <1>2 DEF HoldInv, SpawnFails, Go
    <3> QED BY <2>1, <2>2, <3>1, MoveStep DEF FinishRun, Columns, Outcomes, Finished
  <2> QED BY <1>2, <2>1, <2>2 DEF SpawnFails
<1>3. ASSUME NEW s \in Schedulers, Record(s) PROVE BoardInv' /\ RunsStay
  <2>1. current[s] \in Runs /\ current[s] <= lastRun /\ RecordWorkerPid(current[s])
    BY <1>3 DEF HoldInv, Record, Go
  <2>2. runs[current[s]].task \in Tasks
    BY <2>1, RunHasTask
  <2> QED BY <2>1, <2>2, RecordInv DEF RunsStay, BoardInv, BoardTypeOK
<1>4. ASSUME NEW r \in Runs, Finish(r) \/ Release(r) PROVE BoardInv' /\ RunsStay
  BY <1>4, MoveStep DEF Finish, Release, Columns, Outcomes, Finished
<1>5. ASSUME NEW t \in Tasks, RequeueCard(t) PROVE BoardInv' /\ RunsStay
  BY <1>5, RequeueInv DEF RequeueCard, RunsStay, BoardInv, BoardTypeOK
<1>6. ASSUME NEW t \in Tasks, Reassign(t) PROVE BoardInv' /\ RunsStay
  BY <1>6, <1>0 DEF Reassign
<1>7. CASE UNCHANGED vars
  BY <1>7, <1>0 DEF vars, boardVars
<1>8. ASSUME NEW s \in Schedulers, StartTick(s) PROVE BoardInv' /\ RunsStay
  BY <1>8, <1>0 DEF StartTick
<1>9. ASSUME NEW s \in Schedulers, OpenBoard(s) PROVE BoardInv' /\ RunsStay
  BY <1>9, <1>0 DEF OpenBoard
<1>10. ASSUME NEW s \in Schedulers, ListLane(s) PROVE BoardInv' /\ RunsStay
  BY <1>10, <1>0 DEF ListLane
<1>11. ASSUME NEW s \in Schedulers, LaneDone(s) PROVE BoardInv' /\ RunsStay
  BY <1>11, <1>0 DEF LaneDone
<1>12. ASSUME NEW s \in Schedulers, ClaimLost(s) PROVE BoardInv' /\ RunsStay
  BY <1>12, <1>0 DEF ClaimLost
<1>13. ASSUME NEW s \in Schedulers, SpawnSupervisor(s) PROVE BoardInv' /\ RunsStay
  BY <1>13, <1>0 DEF SpawnSupervisor
<1>14. ASSUME NEW s \in Schedulers, LeaveBoard(s) PROVE BoardInv' /\ RunsStay
  BY <1>14, <1>0 DEF LeaveBoard
<1>15. ASSUME NEW s \in Schedulers, SkipBoard(s) PROVE BoardInv' /\ RunsStay
  BY <1>15, <1>0 DEF SkipBoard
<1>16. ASSUME NEW s \in Schedulers, EndTick(s) PROVE BoardInv' /\ RunsStay
  BY <1>16, <1>0 DEF EndTick
<1>17. ASSUME NEW s \in Schedulers, Die(s) PROVE BoardInv' /\ RunsStay
  BY <1>17, <1>0 DEF Die
<1> QED
  BY <1>1, <1>2, <1>3, <1>4, <1>5, <1>6, <1>7, <1>8, <1>9, <1>10, <1>11, <1>12, <1>13, <1>14, <1>15, <1>16, <1>17 DEF Next, Tick

-----------------------------------------------------------------------------
(***************************************************************************)
(* Types and claims                                                        *)
(***************************************************************************)
\* A won claim opens the next run, for a card of the list.
LEMMA ClaimWonRun ==
  ASSUME SchedulerInv, NEW s \in Schedulers, ClaimWon(s)
  PROVE  /\ lastRun + 1 \in Runs /\ lastRun' = lastRun + 1
         /\ \E t \in ready[s] : /\ t \in Tasks /\ card[t].status = "ready" /\ runs'[lastRun + 1].task = t
                                /\ card' = [card EXCEPT ![t] = [status |-> "running", run |-> lastRun + 1, pid |-> NoRun]]
                                /\ ready' = [ready EXCEPT ![s] = @ \ {t}]
                                /\ \A r \in Runs : r # lastRun + 1 => runs'[r] = runs[r]
<1>1. PICK t \in ready[s] : ClaimTask(t) /\ ready' = [ready EXCEPT ![s] = @ \ {t}]
  BY DEF ClaimWon
<1>2. t \in Tasks
  BY <1>1 DEF SchedulerInv, TypeOK, SchedulerTypeOK
<1>3. lastRun + 1 \in Runs /\ lastRun' = lastRun + 1 /\ \A r \in Runs : r # lastRun + 1 => runs'[r] = runs[r]
  BY <1>1, <1>2, ClaimInv DEF SchedulerInv
<1>4. runs'[lastRun + 1].task = t
  BY <1>1, <1>3 DEF ClaimTask, SchedulerInv, BoardInv, BoardTypeOK
<1> QED BY <1>1, <1>2, <1>3, <1>4 DEF ClaimTask, Claimable

\* The cards are finitely many, so counting them gives a number.
LEMMA CountIsNat == ASSUME NEW P \in SUBSET Tasks PROVE Cardinality(P) \in Nat
BY SchedulerAssumption, FS_Subset, FS_CardinalityType

\* Every step keeps the types; a count only goes up and a list only shrinks.
LEMMA TypeStep ==
  ASSUME SchedulerInv, [Next]_vars
  PROVE  SchedulerTypeOK'
<1> USE SchedulerAssumption DEF SchedulerInv, TypeOK, SchedulerTypeOK
<1>1. ASSUME NEW s \in Schedulers, StartTick(s) PROVE SchedulerTypeOK'
  BY <1>1 DEF StartTick, Go
<1>2. ASSUME NEW s \in Schedulers, ListLane(s) PROVE SchedulerTypeOK'
  BY <1>2 DEF ListLane, Go, Listed
<1>3. ASSUME NEW s \in Schedulers, LaneDone(s) PROVE SchedulerTypeOK'
  BY <1>3 DEF LaneDone, Go
<1>4. ASSUME NEW s \in Schedulers, ClaimLost(s) PROVE SchedulerTypeOK'
  BY <1>4 DEF ClaimLost
<1>5. ASSUME NEW s \in Schedulers, LeaveBoard(s) PROVE SchedulerTypeOK'
  BY <1>5 DEF LeaveBoard, NoCount, NoRun
<1>6. ASSUME NEW s \in Schedulers, SkipBoard(s) PROVE SchedulerTypeOK'
  BY <1>6 DEF SkipBoard
<1>7. ASSUME NEW s \in Schedulers, EndTick(s) PROVE SchedulerTypeOK'
  BY <1>7 DEF EndTick, Go
<1>8. ASSUME NEW s \in Schedulers, Die(s) PROVE SchedulerTypeOK'
  BY <1>8 DEF Die, NoCount, NoRun
<1>9. ASSUME NEW s \in Schedulers, SpawnFails(s) PROVE SchedulerTypeOK'
  BY <1>9 DEF SpawnFails, Go, NoRun
<1>10. ASSUME NEW s \in Schedulers, Record(s) PROVE SchedulerTypeOK'
  BY <1>10 DEF Record, Go, NoRun
<1>11. ASSUME NEW s \in Schedulers, OpenBoard(s) PROVE SchedulerTypeOK'
  <2>1. \A b, a : Cardinality(Listed(b, a, "running")) \in Nat
    BY CountIsNat DEF Listed
  <2> QED BY <1>11, <2>1 DEF OpenBoard, Go
<1>12. ASSUME NEW s \in Schedulers, ClaimWon(s) PROVE SchedulerTypeOK'
  <2>1. lastRun + 1 \in Runs
    BY <1>12, ClaimWonRun
  <2> QED BY <1>12, <2>1 DEF ClaimWon, Go
<1>13. ASSUME NEW s \in Schedulers, SpawnSupervisor(s) PROVE SchedulerTypeOK'
  <2>1. current[s] \in Runs
    BY <1>13 DEF SpawnSupervisor, Go, HoldInv
  <2> QED BY <1>13, <2>1 DEF SpawnSupervisor, Go
<1>14. ASSUME NEW r \in Runs, Finish(r) \/ Release(r) PROVE SchedulerTypeOK'
  BY <1>14 DEF Finish, Release, Others, localVars
<1>15. ASSUME NEW t \in Tasks, RequeueCard(t) \/ Reassign(t) PROVE SchedulerTypeOK'
  BY <1>15 DEF RequeueCard, Reassign, Others, localVars
<1>16. CASE UNCHANGED vars
  BY <1>16 DEF vars
<1> QED
  BY <1>1, <1>2, <1>3, <1>4, <1>5, <1>6, <1>7, <1>8, <1>9, <1>10, <1>11, <1>12, <1>13, <1>14, <1>15, <1>16 DEF Next, Tick

\* Only a won claim, and only a started supervisor, is entered.
LEMMA ClaimsStep ==
  ASSUME SchedulerInv, [Next]_vars, BoardInv', RunsStay
  PROVE  ClaimsInv'
<1> USE DEF SchedulerInv
<1>0. CASE UNCHANGED <<claims, spawned>>
  <2>1. lastRun \in Nat /\ lastRun' \in Nat /\ lastRun' >= lastRun
    BY BoardAssumption DEF RunsStay, BoardInv, BoardTypeOK
  <2>2. (\A c \in claims : c.run \in Nat) /\ \A r \in spawned : r \in Nat
    BY DEF TypeOK, SchedulerTypeOK, Runs
  <2> QED BY <1>0, <2>1, <2>2 DEF ClaimsInv
<1>1. ASSUME NEW s \in Schedulers, ClaimWon(s) PROVE ClaimsInv'
  <2>1. lastRun \in Nat /\ lastRun' = lastRun + 1
    BY <1>1, ClaimWonRun DEF TypeOK, BoardTypeOK
  <2>2. \A c \in claims : c.run \in Nat
    BY DEF TypeOK, SchedulerTypeOK, Runs
  <2>3. \A r \in spawned : r \in Nat
    BY DEF TypeOK, SchedulerTypeOK, Runs
  <2>4. claims' = claims \cup {[run |-> lastRun + 1, by |-> s, lane |-> lane[s]]} /\ spawned' = spawned
    BY <1>1 DEF ClaimWon
  <2> QED BY <2>1, <2>2, <2>3, <2>4 DEF ClaimsInv
<1>2. ASSUME NEW s \in Schedulers, SpawnSupervisor(s) PROVE ClaimsInv'
  BY <1>2 DEF SpawnSupervisor, Go, HoldInv, ClaimsInv, boardVars
<1>3. ASSUME NEW r \in Runs, Finish(r) \/ Release(r) PROVE ClaimsInv'
  BY <1>0, <1>3 DEF Finish, Release, Others
<1>4. ASSUME NEW t \in Tasks, RequeueCard(t) \/ Reassign(t) PROVE ClaimsInv'
  BY <1>0, <1>4 DEF RequeueCard, Reassign, Others
<1>5. CASE UNCHANGED vars
  BY <1>0, <1>5 DEF vars
<1>6. ASSUME NEW s \in Schedulers, StartTick(s) PROVE ClaimsInv'
  BY <1>0, <1>6 DEF StartTick
<1>7. ASSUME NEW s \in Schedulers, OpenBoard(s) PROVE ClaimsInv'
  BY <1>0, <1>7 DEF OpenBoard
<1>8. ASSUME NEW s \in Schedulers, ListLane(s) PROVE ClaimsInv'
  BY <1>0, <1>8 DEF ListLane
<1>9. ASSUME NEW s \in Schedulers, LaneDone(s) PROVE ClaimsInv'
  BY <1>0, <1>9 DEF LaneDone
<1>10. ASSUME NEW s \in Schedulers, ClaimLost(s) PROVE ClaimsInv'
  BY <1>0, <1>10 DEF ClaimLost
<1>11. ASSUME NEW s \in Schedulers, SpawnFails(s) PROVE ClaimsInv'
  BY <1>0, <1>11 DEF SpawnFails
<1>12. ASSUME NEW s \in Schedulers, Record(s) PROVE ClaimsInv'
  BY <1>0, <1>12 DEF Record
<1>13. ASSUME NEW s \in Schedulers, LeaveBoard(s) PROVE ClaimsInv'
  BY <1>0, <1>13 DEF LeaveBoard
<1>14. ASSUME NEW s \in Schedulers, SkipBoard(s) PROVE ClaimsInv'
  BY <1>0, <1>14 DEF SkipBoard
<1>15. ASSUME NEW s \in Schedulers, EndTick(s) PROVE ClaimsInv'
  BY <1>0, <1>15 DEF EndTick
<1>16. ASSUME NEW s \in Schedulers, Die(s) PROVE ClaimsInv'
  BY <1>0, <1>16 DEF Die
<1> QED
  BY <1>1, <1>2, <1>3, <1>4, <1>5, <1>6, <1>7, <1>8, <1>9, <1>10, <1>11, <1>12, <1>13, <1>14, <1>15, <1>16 DEF Next, Tick

\* What a scheduler holds is not disturbed by the others, nor by the board.
LEMMA HoldOther ==
  ASSUME SchedulerInv, BoardInv', RunsStay, NEW q \in Schedulers,
         spc'[q] = spc[q], board'[q] = board[q], lane'[q] = lane[q], running'[q] = running[q],
         ready'[q] \subseteq ready[q], current'[q] = current[q], claims \subseteq claims',
         spc[q] \in {"spawning", "recording"} => (current[q] \in spawned' <=> current[q] \in spawned)
  PROVE  HoldInv(q)'
<1>1. CASE spc[q] \in {"spawning", "recording"}
  <2>0. current[q] \in Runs /\ current[q] <= lastRun
    BY <1>1 DEF SchedulerInv, HoldInv
  <2>1. current[q] <= lastRun' /\ runs'[current[q]].task = runs[current[q]].task
    <3>1. lastRun \in Nat /\ lastRun' \in Nat /\ current[q] \in Nat
      BY <2>0, BoardAssumption DEF SchedulerInv, BoardInv, BoardTypeOK, Runs
    <3> QED BY <2>0, <3>1 DEF RunsStay
  <2> QED BY <1>1, <2>0, <2>1 DEF SchedulerInv, HoldInv
<1>2. CASE spc[q] \notin {"spawning", "recording"}
  BY <1>2 DEF SchedulerInv, HoldInv
<1> QED BY <1>1, <1>2

\* Every step of scheduler and board leaves each scheduler with what it holds.
LEMMA HoldStep ==
  ASSUME SchedulerInv, [Next]_vars, BoardInv', RunsStay, NEW q \in Schedulers
  PROVE  HoldInv(q)'
<1> USE DEF SchedulerInv
<1>1. ASSUME NEW s \in Schedulers, StartTick(s) PROVE HoldInv(q)'
  <2>1. CASE q # s
    BY <1>1, <2>1, HoldOther DEF StartTick, Go, TypeOK, SchedulerTypeOK
  <2>2. CASE q = s
    BY <1>1, <2>2 DEF StartTick, Go, TypeOK, SchedulerTypeOK, HoldInv, boardVars
  <2> QED BY <2>1, <2>2
<1>2. ASSUME NEW s \in Schedulers, LaneDone(s) PROVE HoldInv(q)'
  <2>1. CASE q # s
    BY <1>2, <2>1, HoldOther DEF LaneDone, Go, TypeOK, SchedulerTypeOK
  <2>2. CASE q = s
    BY <1>2, <2>2 DEF LaneDone, Go, TypeOK, SchedulerTypeOK, HoldInv, boardVars
  <2> QED BY <2>1, <2>2
<1>3. ASSUME NEW s \in Schedulers, ClaimLost(s) PROVE HoldInv(q)'
  <2>1. CASE q # s
    BY <1>3, <2>1, HoldOther DEF ClaimLost, TypeOK, SchedulerTypeOK
  <2>2. CASE q = s
    BY <1>3, <2>2 DEF ClaimLost, TypeOK, SchedulerTypeOK, HoldInv, boardVars
  <2> QED BY <2>1, <2>2
<1>4. ASSUME NEW s \in Schedulers, LeaveBoard(s) PROVE HoldInv(q)'
  <2>1. CASE q # s
    BY <1>4, <2>1, HoldOther DEF LeaveBoard, TypeOK, SchedulerTypeOK
  <2>2. CASE q = s
    BY <1>4, <2>2 DEF LeaveBoard, TypeOK, SchedulerTypeOK, HoldInv, boardVars
  <2> QED BY <2>1, <2>2
<1>5. ASSUME NEW s \in Schedulers, SkipBoard(s) PROVE HoldInv(q)'
  <2>1. CASE q # s
    BY <1>5, <2>1, HoldOther DEF SkipBoard, TypeOK, SchedulerTypeOK
  <2>2. CASE q = s
    BY <1>5, <2>2 DEF SkipBoard, TypeOK, SchedulerTypeOK, HoldInv, boardVars
  <2> QED BY <2>1, <2>2
<1>6. ASSUME NEW s \in Schedulers, EndTick(s) PROVE HoldInv(q)'
  <2>1. CASE q # s
    BY <1>6, <2>1, HoldOther DEF EndTick, Go, TypeOK, SchedulerTypeOK
  <2>2. CASE q = s
    BY <1>6, <2>2 DEF EndTick, Go, TypeOK, SchedulerTypeOK, HoldInv, boardVars
  <2> QED BY <2>1, <2>2
<1>7. ASSUME NEW s \in Schedulers, Die(s) PROVE HoldInv(q)'
  <2>1. CASE q # s
    BY <1>7, <2>1, HoldOther DEF Die, TypeOK, SchedulerTypeOK
  <2>2. CASE q = s
    BY <1>7, <2>2 DEF Die, TypeOK, SchedulerTypeOK, HoldInv, boardVars
  <2> QED BY <2>1, <2>2
<1>8. ASSUME NEW s \in Schedulers, SpawnFails(s) PROVE HoldInv(q)'
  <2>1. CASE q # s
    BY <1>8, <2>1, HoldOther DEF SpawnFails, Go, TypeOK, SchedulerTypeOK
  <2>2. CASE q = s
    BY <1>8, <2>2 DEF SpawnFails, Go, TypeOK, SchedulerTypeOK, HoldInv, boardVars
  <2> QED BY <2>1, <2>2
<1>9. ASSUME NEW s \in Schedulers, Record(s) PROVE HoldInv(q)'
  <2>1. CASE q # s
    BY <1>9, <2>1, HoldOther DEF Record, Go, TypeOK, SchedulerTypeOK
  <2>2. CASE q = s
    BY <1>9, <2>2 DEF Record, Go, TypeOK, SchedulerTypeOK, HoldInv, boardVars
  <2> QED BY <2>1, <2>2
<1>10. ASSUME NEW s \in Schedulers, OpenBoard(s) PROVE HoldInv(q)'
  <2>1. CASE q # s
    BY <1>10, <2>1, HoldOther DEF OpenBoard, Go, TypeOK, SchedulerTypeOK
  <2>2. CASE q = s
    BY <1>10, <2>2 DEF OpenBoard, Go, TypeOK, SchedulerTypeOK, HoldInv, boardVars
  <2> QED BY <2>1, <2>2
<1>11. ASSUME NEW s \in Schedulers, ListLane(s) PROVE HoldInv(q)'
  <2>1. CASE q # s
    BY <1>11, <2>1, HoldOther DEF ListLane, Go, Listed, TypeOK, SchedulerTypeOK
  <2>2. CASE q = s
    BY <1>11, <2>2 DEF ListLane, Go, Listed, TypeOK, SchedulerTypeOK, HoldInv, boardVars
  <2> QED BY <2>1, <2>2
<1>12. ASSUME NEW s \in Schedulers, ClaimWon(s) PROVE HoldInv(q)'
  <2>1. CASE q # s
    BY <1>12, <2>1, HoldOther DEF ClaimWon, Go, TypeOK, SchedulerTypeOK
  <2>2. CASE q = s
    <3>1. PICK t \in ready[s] : /\ runs'[lastRun + 1].task = t
                               /\ ready' = [ready EXCEPT ![s] = @ \ {t}]
      BY <1>12, ClaimWonRun
    <3>2. lastRun + 1 \in Runs /\ lastRun' = lastRun + 1 /\ lastRun \in Nat
      BY <1>12, ClaimWonRun DEF TypeOK, BoardTypeOK
    <3>3. lastRun + 1 \notin spawned
      BY <3>2 DEF ClaimsInv
    <3>4. spc[s] = "cards" /\ spc'[s] = "spawning" /\ current'[s] = lastRun + 1 /\ UNCHANGED <<board, lane, running, spawned>>
      BY <1>12 DEF ClaimWon, Go, TypeOK, SchedulerTypeOK
    <3>5. BoardOf[t] = board[s] /\ \A u \in ready'[s] : BoardOf[u] = board[s]
      BY <3>1, <3>4 DEF HoldInv, TypeOK, SchedulerTypeOK
    <3>6. running[s][lane[s]] < Concurrency[lane[s]]
      BY <1>12, SchedulerAssumption DEF ClaimWon, AtCap, TypeOK, SchedulerTypeOK
    <3>7. [run |-> lastRun + 1, by |-> s, lane |-> lane[s]] \in claims'
      BY <1>12 DEF ClaimWon
    <3> QED BY <2>2, <3>1, <3>2, <3>3, <3>4, <3>5, <3>6, <3>7 DEF HoldInv
  <2> QED BY <2>1, <2>2
<1>13. ASSUME NEW s \in Schedulers, SpawnSupervisor(s) PROVE HoldInv(q)'
  <2>1. CASE q # s
    <3>1. spc[q] \in {"spawning", "recording"} => current[q] # current[s]
      BY <1>13, <2>1 DEF SpawnSupervisor, Go, HoldInv, ClaimsInv
    <3> QED BY <1>13, <2>1, <3>1, HoldOther DEF SpawnSupervisor, Go, TypeOK, SchedulerTypeOK
  <2>2. CASE q = s
    BY <1>13, <2>2 DEF SpawnSupervisor, Go, TypeOK, SchedulerTypeOK, HoldInv, boardVars
  <2> QED BY <2>1, <2>2
<1>14. ASSUME NEW r \in Runs, Finish(r) \/ Release(r) PROVE HoldInv(q)'
  BY <1>14, HoldOther DEF Finish, Release, Others, localVars
<1>15. ASSUME NEW t \in Tasks, RequeueCard(t) \/ Reassign(t) PROVE HoldInv(q)'
  BY <1>15, HoldOther DEF RequeueCard, Reassign, Others, localVars
<1>16. CASE UNCHANGED vars
  BY <1>16, HoldOther DEF vars
<1> QED
  BY <1>1, <1>2, <1>3, <1>4, <1>5, <1>6, <1>7, <1>8, <1>9, <1>10, <1>11, <1>12, <1>13, <1>14, <1>15, <1>16 DEF Next, Tick

\* The invariant is inductive.
LEMMA InvStep == ASSUME SchedulerInv, [Next]_vars PROVE SchedulerInv' /\ RunsStay
<1>1. BoardInv' /\ RunsStay
  BY BoardStep
<1>2. SchedulerTypeOK'
  BY TypeStep
<1>3. ClaimsInv'
  BY <1>1, ClaimsStep
<1>4. \A s \in Schedulers : HoldInv(s)'
  BY <1>1, HoldStep
<1> QED BY <1>1, <1>2, <1>3, <1>4 DEF SchedulerInv, TypeOK, BoardInv

\* It holds before the first tick.
LEMMA InvInit == ASSUME Init PROVE SchedulerInv
<1>1. BoardInv
  BY BoardInitInv DEF Init
<1>2. SomeBoard \in Boards /\ SomeLane \in Assignees
  BY SchedulerAssumption DEF SomeBoard, SomeLane
<1> QED BY <1>1, <1>2 DEF Init, SchedulerInv, TypeOK, BoardInv, SchedulerTypeOK, ClaimsInv, HoldInv,
     NoCount, NoRun, Runs

-----------------------------------------------------------------------------
(***************************************************************************)
(* No claim is forgotten                                                   *)
(***************************************************************************)
\* Without deaths and failing releases, only a start or a release ends a claim that has no supervisor.
LEMMA ForgetStep ==
  ASSUME SchedulerInv, [Next]_vars, BoardInv', NoForgottenClaim, {"die", "release"} \cap SchedulerFaults = {}
  PROVE  NoForgottenClaim'
<1> SUFFICES ASSUME NEW r \in Runs, Owner(r)', r \notin spawned'
             PROVE  \E s \in Schedulers : spc'[s] = "spawning" /\ current'[s] = r
  BY DEF NoForgottenClaim
<1> USE DEF SchedulerInv
<1>a. runs'[r].outcome = "open"
  BY DEF BoardInv, OpenRunHoldsCard
<1>b. ASSUME runs[r].outcome = "open", spawned \subseteq spawned'
      PROVE  \E q \in Schedulers : spc[q] = "spawning" /\ current[q] = r
  BY <1>b DEF NoForgottenClaim, BoardInv, OpenRunHoldsCard
<1>c. ASSUME UNCHANGED <<runs, spc, current, spawned>>
      PROVE  \E s \in Schedulers : spc'[s] = "spawning" /\ current'[s] = r
  BY <1>a, <1>b, <1>c
<1> DEFINE G == \E s \in Schedulers : spc'[s] = "spawning" /\ current'[s] = r
<1>1. ASSUME NEW s \in Schedulers, ClaimWon(s) PROVE G
  <2>1. CASE r = lastRun + 1
    BY <1>1, <2>1 DEF ClaimWon, Go, TypeOK, SchedulerTypeOK
  <2>2. CASE r # lastRun + 1
    <3>1. runs'[r] = runs[r]
      BY <1>1, <2>2, ClaimWonRun
    <3>2. PICK q \in Schedulers : spc[q] = "spawning" /\ current[q] = r
      BY <1>a, <1>b, <1>1, <3>1 DEF ClaimWon
    <3> QED BY <1>1, <3>2 DEF ClaimWon, Go, TypeOK, SchedulerTypeOK
  <2> QED BY <2>1, <2>2
<1>2. ASSUME NEW s \in Schedulers, SpawnSupervisor(s) PROVE G
  <2>1. PICK q \in Schedulers : spc[q] = "spawning" /\ current[q] = r
    BY <1>a, <1>b, <1>2 DEF SpawnSupervisor, boardVars
  <2> QED BY <1>2, <2>1 DEF SpawnSupervisor, Go, TypeOK, SchedulerTypeOK
<1>3. ASSUME NEW s \in Schedulers, SpawnFails(s) PROVE G
  <2>1. FinishRun(current[s], "blocked", "unspawned") /\ current[s] \in Runs
    BY <1>3 DEF SpawnFails, Go, HoldInv
  <2>2. r # current[s] /\ runs[r].outcome = "open"
    BY <1>a, <2>1 DEF FinishRun, MoveCard, BoardInv, BoardTypeOK, OpenRunHoldsCard, boardVars
  <2>3. PICK q \in Schedulers : spc[q] = "spawning" /\ current[q] = r
    BY <1>b, <1>3, <2>2 DEF SpawnFails
  <2> QED BY <1>3, <2>2, <2>3 DEF SpawnFails, Go, TypeOK, SchedulerTypeOK
<1>4. ASSUME NEW q \in Runs, Finish(q) \/ Release(q) PROVE G
  <2>1. runs[r].outcome = "open"
    BY <1>a, <1>4 DEF Finish, Release, MoveCard, Finished, BoardInv, BoardTypeOK
  <2> QED BY <1>b, <1>4, <2>1 DEF Finish, Release, Others, localVars
<1>5. ASSUME NEW t \in Tasks, RequeueCard(t) \/ Reassign(t) PROVE G
  BY <1>c, <1>5 DEF RequeueCard, Requeue, Reassign, Others, localVars, boardVars
<1>6. CASE UNCHANGED vars
  BY <1>c, <1>6 DEF vars
<1>7. ASSUME NEW s \in Schedulers, ClaimLost(s) \/ SkipBoard(s) PROVE G
  BY <1>c, <1>7 DEF ClaimLost, SkipBoard, boardVars
<1>8. ASSUME NEW s \in Schedulers, Die(s) PROVE G
  BY <1>8 DEF Die
<1>9. ASSUME NEW s \in Schedulers, StartTick(s) PROVE G
  <2>1. PICK q \in Schedulers : spc[q] = "spawning" /\ current[q] = r
    BY <1>a, <1>b, <1>9 DEF StartTick, RecordWorkerPid, boardVars
  <2> QED BY <1>9, <2>1 DEF StartTick, Go, TypeOK, SchedulerTypeOK
<1>10. ASSUME NEW s \in Schedulers, OpenBoard(s) PROVE G
  <2>1. PICK q \in Schedulers : spc[q] = "spawning" /\ current[q] = r
    BY <1>a, <1>b, <1>10 DEF OpenBoard, RecordWorkerPid, boardVars
  <2> QED BY <1>10, <2>1 DEF OpenBoard, Go, TypeOK, SchedulerTypeOK
<1>11. ASSUME NEW s \in Schedulers, ListLane(s) PROVE G
  <2>1. PICK q \in Schedulers : spc[q] = "spawning" /\ current[q] = r
    BY <1>a, <1>b, <1>11 DEF ListLane, RecordWorkerPid, boardVars
  <2> QED BY <1>11, <2>1 DEF ListLane, Go, TypeOK, SchedulerTypeOK
<1>12. ASSUME NEW s \in Schedulers, LaneDone(s) PROVE G
  <2>1. PICK q \in Schedulers : spc[q] = "spawning" /\ current[q] = r
    BY <1>a, <1>b, <1>12 DEF LaneDone, RecordWorkerPid, boardVars
  <2> QED BY <1>12, <2>1 DEF LaneDone, Go, TypeOK, SchedulerTypeOK
<1>13. ASSUME NEW s \in Schedulers, Record(s) PROVE G
  <2>1. PICK q \in Schedulers : spc[q] = "spawning" /\ current[q] = r
    BY <1>a, <1>b, <1>13 DEF Record, RecordWorkerPid, boardVars
  <2> QED BY <1>13, <2>1 DEF Record, RecordWorkerPid, Go, TypeOK, SchedulerTypeOK
<1>14. ASSUME NEW s \in Schedulers, LeaveBoard(s) PROVE G
  <2>1. PICK q \in Schedulers : spc[q] = "spawning" /\ current[q] = r
    BY <1>a, <1>b, <1>14 DEF LeaveBoard, RecordWorkerPid, boardVars
  <2> QED BY <1>14, <2>1 DEF LeaveBoard, TypeOK, SchedulerTypeOK
<1>15. ASSUME NEW s \in Schedulers, EndTick(s) PROVE G
  <2>1. PICK q \in Schedulers : spc[q] = "spawning" /\ current[q] = r
    BY <1>a, <1>b, <1>15 DEF EndTick, RecordWorkerPid, boardVars
  <2> QED BY <1>15, <2>1 DEF EndTick, Go, TypeOK, SchedulerTypeOK
<1> QED
  BY <1>1, <1>2, <1>3, <1>4, <1>5, <1>6, <1>7, <1>8, <1>9, <1>10, <1>11, <1>12, <1>13, <1>14, <1>15 DEF Next, Tick

-----------------------------------------------------------------------------
(***************************************************************************)
(* The lane's concurrency                                                  *)
(***************************************************************************)
\* Only a claim makes a card running, and that under a new run.
RunningStays ==
  \A t \in Tasks : card'[t].status = "running" /\ card'[t].run <= lastRun =>
                   card[t].status = "running" /\ card'[t].run = card[t].run

\* A transition starts nothing on the other cards.
LEMMA MovedCards ==
  ASSUME BoardInv, NEW r \in Runs, Owner(r), NEW column \in Columns \ {"running"}, NEW outcome,
         MoveCard(r, column, outcome)
  PROVE  RunningStays
BY DEF MoveCard, RunningStays, BoardInv, BoardTypeOK, Owner

\* A card that runs under an old run ran under it before.
LEMMA RunningStep ==
  ASSUME SchedulerInv, [Next]_vars
  PROVE  RunningStays
<1> USE DEF SchedulerInv
<1>0. CASE UNCHANGED card
  BY <1>0 DEF RunningStays
<1>1. ASSUME NEW s \in Schedulers, ClaimWon(s) PROVE RunningStays
  <2>1. lastRun \in Nat
    BY BoardAssumption DEF TypeOK, BoardTypeOK
  <2>2. PICK t \in Tasks : card' = [card EXCEPT ![t] = [status |-> "running", run |-> lastRun + 1, pid |-> NoRun]]
    BY <1>1, ClaimWonRun
  <2> QED BY <2>1, <2>2 DEF RunningStays, TypeOK, BoardTypeOK
<1>2. ASSUME NEW s \in Schedulers, SpawnFails(s) PROVE RunningStays
  <2>1. current[s] \in Runs
    BY <1>2 DEF SpawnFails, Go, HoldInv
  <2> QED BY <1>0, <1>2, <2>1, MovedCards DEF SpawnFails, FinishRun, boardVars, Columns
<1>3. ASSUME NEW s \in Schedulers, Record(s) PROVE RunningStays
  BY <1>3 DEF Record, RecordWorkerPid, RunningStays, TypeOK, BoardTypeOK
<1>4. ASSUME NEW r \in Runs, Finish(r) \/ Release(r) PROVE RunningStays
  BY <1>4, MovedCards DEF Finish, Release, Columns, Finished
<1>5. ASSUME NEW t \in Tasks, RequeueCard(t) PROVE RunningStays
  BY <1>5 DEF RequeueCard, Requeue, RunningStays, TypeOK, BoardTypeOK
<1>6. ASSUME NEW t \in Tasks, Reassign(t) PROVE RunningStays
  BY <1>0, <1>6 DEF Reassign, boardVars
<1>7. CASE UNCHANGED vars
  BY <1>0, <1>7 DEF vars
<1>8. ASSUME NEW s \in Schedulers, StartTick(s) PROVE RunningStays
  BY <1>0, <1>8 DEF StartTick, boardVars
<1>9. ASSUME NEW s \in Schedulers, OpenBoard(s) PROVE RunningStays
  BY <1>0, <1>9 DEF OpenBoard, boardVars
<1>10. ASSUME NEW s \in Schedulers, ListLane(s) PROVE RunningStays
  BY <1>0, <1>10 DEF ListLane, boardVars
<1>11. ASSUME NEW s \in Schedulers, LaneDone(s) PROVE RunningStays
  BY <1>0, <1>11 DEF LaneDone, boardVars
<1>12. ASSUME NEW s \in Schedulers, ClaimLost(s) PROVE RunningStays
  BY <1>0, <1>12 DEF ClaimLost, boardVars
<1>13. ASSUME NEW s \in Schedulers, SpawnSupervisor(s) PROVE RunningStays
  BY <1>0, <1>13 DEF SpawnSupervisor, boardVars
<1>14. ASSUME NEW s \in Schedulers, LeaveBoard(s) PROVE RunningStays
  BY <1>0, <1>14 DEF LeaveBoard, boardVars
<1>15. ASSUME NEW s \in Schedulers, SkipBoard(s) PROVE RunningStays
  BY <1>0, <1>15 DEF SkipBoard, boardVars
<1>16. ASSUME NEW s \in Schedulers, EndTick(s) PROVE RunningStays
  BY <1>0, <1>16 DEF EndTick, boardVars
<1>17. ASSUME NEW s \in Schedulers, Die(s) PROVE RunningStays
  BY <1>0, <1>17 DEF Die, boardVars
<1> QED
  BY <1>1, <1>2, <1>3, <1>4, <1>5, <1>6, <1>7, <1>8, <1>9, <1>10, <1>11, <1>12, <1>13, <1>14, <1>15, <1>16, <1>17 DEF Next, Tick

\* Claims are added to, by a won claim only.
LEMMA ClaimsGrow ==
  ASSUME [Next]_vars
  PROVE  /\ claims' = claims \/ \E s \in Schedulers : ClaimWon(s)
         /\ spawned' = spawned \/ \E s \in Schedulers : SpawnSupervisor(s)
BY SMTT(30) DEF Next, Tick, vars, Others, StartTick, OpenBoard, ListLane, LaneDone, ClaimWon, ClaimLost, SpawnSupervisor,
   SpawnFails, Record, LeaveBoard, SkipBoard, EndTick, Die, Finish, Release, RequeueCard, Reassign

\* A claim of an old run was made before.
LEMMA OldClaims ==
  ASSUME SchedulerInv, [Next]_vars
  PROVE  claims \subseteq claims' /\ \A c \in claims' : c.run <= lastRun => c \in claims
<1>1. lastRun \in Nat
  BY BoardAssumption DEF SchedulerInv, TypeOK, BoardTypeOK
<1>2. CASE claims' = claims
  BY <1>2
<1>3. ASSUME NEW s \in Schedulers, ClaimWon(s)
      PROVE  claims \subseteq claims' /\ \A c \in claims' : c.run <= lastRun => c \in claims
  BY <1>1, <1>3 DEF ClaimWon
<1> QED BY <1>2, <1>3, ClaimsGrow

\* What a scheduler has running grows by its own starts only.
LEMMA Shrinks ==
  ASSUME SchedulerInv, [Next]_vars, NEW s, NEW b, NEW a, NEW t \in Supervised(s, b, a)', card'[t].run \in spawned
  PROVE  t \in Supervised(s, b, a)
<1>1. t \in Tasks /\ card'[t].status = "running" /\ card'[t].run <= lastRun
  BY DEF Supervised, SchedulerInv, ClaimsInv
<1>2. card[t].status = "running" /\ card'[t].run = card[t].run
  BY <1>1, RunningStep DEF RunningStays
<1>3. [run |-> card[t].run, by |-> s, lane |-> a] \in claims
  BY <1>1, <1>2, OldClaims DEF Supervised
<1> QED BY <1>1, <1>2, <1>3 DEF Supervised

\* Fewer cards count for less.
LEMMA FewerCards ==
  ASSUME NEW P \in SUBSET Tasks, NEW Q \in SUBSET P
  PROVE  Cardinality(P) \in Nat /\ Cardinality(Q) \in Nat /\ Cardinality(Q) <= Cardinality(P)
<1>1. IsFiniteSet(P)
  BY SchedulerAssumption, FS_Subset
<1> QED BY <1>1, FS_Subset, FS_CardinalityType

\* One card more counts for at most one more.
LEMMA OneMoreCard ==
  ASSUME NEW P \in SUBSET Tasks, NEW t, NEW Q \in SUBSET (P \cup {t})
  PROVE  Cardinality(P) \in Nat /\ Cardinality(Q) \in Nat /\ Cardinality(Q) <= Cardinality(P) + 1
<1>1. IsFiniteSet(P)
  BY SchedulerAssumption, FS_Subset
<1>2. IsFiniteSet(P \cup {t}) /\ Cardinality(P \cup {t}) <= Cardinality(P) + 1
  <2>1. Cardinality(P) \in Nat
    BY <1>1, FS_CardinalityType, Zenon
  <2>2. /\ IsFiniteSet(P \cup {t})
        /\ Cardinality(P \cup {t}) = IF t \in P THEN Cardinality(P) ELSE Cardinality(P) + 1
    BY <1>1, FS_AddElement, Zenon
  <2> QED BY <2>1, <2>2
<1>3. Cardinality(Q) <= Cardinality(P \cup {t}) /\ IsFiniteSet(Q)
  BY <1>2, FS_Subset
<1>4. Cardinality(P) \in Nat /\ Cardinality(Q) \in Nat /\ Cardinality(P \cup {t}) \in Nat
  BY <1>1, <1>2, <1>3, FS_CardinalityType
<1> QED BY <1>2, <1>3, <1>4

\* Without reassignment every step keeps claims and lists to their lanes.
LEMMA LaneStep ==
  ASSUME SchedulerInv, [Next]_vars, RunsStay, LaneInv, ~Reassigning
  PROVE  LaneInv'
<1> USE DEF SchedulerInv
<1>0. assignee' = assignee
  BY DEF Next, Tick, vars, Others, StartTick, OpenBoard, ListLane, LaneDone, ClaimWon, ClaimLost, SpawnSupervisor,
     SpawnFails, Record, LeaveBoard, SkipBoard, EndTick, Die, Finish, Release, RequeueCard, Reassign
<1>1. \A c \in claims' : assignee[runs'[c.run].task] = c.lane
  <2>1. \A c \in claims : c.run \in Runs /\ c.run <= lastRun
    BY DEF TypeOK, SchedulerTypeOK, ClaimsInv
  <2>2. \A c \in claims : assignee[runs'[c.run].task] = c.lane
    BY <2>1 DEF RunsStay, LaneInv
  <2>3. ASSUME NEW s \in Schedulers, ClaimWon(s)
        PROVE  \A c \in claims' \ claims : assignee[runs'[c.run].task] = c.lane
    <3>1. PICK t \in ready[s] : runs'[lastRun + 1].task = t
      BY <2>3, ClaimWonRun
    <3> QED BY <2>3, <3>1 DEF ClaimWon, LaneInv
  <2> QED BY <2>2, <2>3, ClaimsGrow
<1>2. \A s \in Schedulers : \A t \in ready'[s] : assignee[t] = lane'[s]
  <2>1. CASE UNCHANGED <<ready, lane>>
    BY <2>1 DEF LaneInv
  <2>2. ASSUME NEW q \in Schedulers, ListLane(q) PROVE \A s \in Schedulers : \A t \in ready'[s] : assignee[t] = lane'[s]
    BY <2>2 DEF ListLane, Listed, LaneInv, TypeOK, SchedulerTypeOK
  <2>3. ASSUME NEW q \in Schedulers, LaneDone(q) \/ ClaimWon(q) \/ ClaimLost(q) \/ LeaveBoard(q) \/ Die(q)
        PROVE  lane' = lane /\ \A s \in Schedulers : ready'[s] \subseteq ready[s]
    BY <2>3 DEF LaneDone, ClaimWon, ClaimLost, LeaveBoard, Die, TypeOK, SchedulerTypeOK
  <2> QED
    BY <2>1, <2>2, <2>3 DEF Next, Tick, vars, Others, localVars, StartTick, OpenBoard, SpawnSupervisor, SpawnFails,
       Record, SkipBoard, EndTick, Finish, Release, RequeueCard, Reassign, LaneInv
<1> QED BY <1>0, <1>1, <1>2 DEF LaneInv

\* The steps that start no supervisor: nobody has more running than before.
LEMMA FewerRunning ==
  ASSUME SchedulerInv, [Next]_vars, spawned' = spawned, NEW s, NEW b, NEW a
  PROVE  /\ Cardinality(Supervised(s, b, a)) \in Nat
         /\ Cardinality(Supervised(s, b, a)') \in Nat
         /\ Cardinality(Supervised(s, b, a)') <= Cardinality(Supervised(s, b, a))
<1>1. Supervised(s, b, a) \in SUBSET Tasks
  BY DEF Supervised
<1>2. Supervised(s, b, a)' \in SUBSET Supervised(s, b, a)
  <2> SUFFICES ASSUME NEW t \in Supervised(s, b, a)' PROVE t \in Supervised(s, b, a)
    OBVIOUS
  <2>1. card'[t].run \in spawned
    BY DEF Supervised
  <2> QED BY <2>1, Shrinks
<1> QED BY <1>1, <1>2, FewerCards

\* A start: one more on the scheduler's own board and lane, nothing elsewhere.
LEMMA OneMoreRunning ==
  ASSUME SchedulerInv, [Next]_vars, NEW q \in Schedulers, SpawnSupervisor(q), NEW s \in Schedulers, NEW b, NEW a
  PROVE  /\ Cardinality(Supervised(s, b, a)) \in Nat
         /\ Cardinality(Supervised(s, b, a)') \in Nat
         /\ Cardinality(Supervised(s, b, a)') <= Cardinality(Supervised(s, b, a))
              + (IF s = q /\ b = board[q] /\ a = lane[q] THEN 1 ELSE 0)
<1> DEFINE u == runs[current[q]].task
<1>1. Supervised(s, b, a) \in SUBSET Tasks
  BY DEF Supervised
<1>2. ASSUME NEW t \in Supervised(s, b, a)', t \notin Supervised(s, b, a)
      PROVE  t = u /\ s = q /\ b = board[q] /\ a = lane[q]
  <2>1. card'[t].run \notin spawned /\ card'[t].run \in spawned'
    BY <1>2, Shrinks DEF Supervised
  <2>2. card[t].run = current[q] /\ card[t].status = "running" /\ claims' = claims /\ t \in Tasks
        /\ BoardOf[t] = b /\ [run |-> current[q], by |-> s, lane |-> a] \in claims
    BY <2>1 DEF Supervised, SpawnSupervisor, boardVars
  <2>3. t = u
    BY <2>2 DEF SchedulerInv, BoardInv, OpenRunHoldsCard
  <2>4. [run |-> current[q], by |-> q, lane |-> lane[q]] \in claims /\ BoardOf[u] = board[q]
    BY DEF SpawnSupervisor, Go, SchedulerInv, HoldInv
  <2>5. [run |-> current[q], by |-> q, lane |-> lane[q]] = [run |-> current[q], by |-> s, lane |-> a]
    BY <2>2, <2>4 DEF SchedulerInv, ClaimsInv
  <2> QED BY <2>2, <2>3, <2>4, <2>5
<1>3. CASE s = q /\ b = board[q] /\ a = lane[q]
  <2>1. Supervised(s, b, a)' \in SUBSET (Supervised(s, b, a) \cup {u})
    BY <1>2
  <2> QED BY <1>1, <1>3, <2>1, OneMoreCard
<1>4. CASE ~(s = q /\ b = board[q] /\ a = lane[q])
  <2>1. Supervised(s, b, a)' \in SUBSET Supervised(s, b, a)
    BY <1>2, <1>4
  <2> QED BY <1>1, <1>4, <2>1, FewerCards
<1> QED BY <1>3, <1>4

\* Each case moves the count and what it is a count of together.
LEMMA CountStep ==
  ASSUME SchedulerInv, [Next]_vars, LaneInv, NEW s \in Schedulers, CountInv(s)
  PROVE  CountInv(s)'
<1> USE DEF SchedulerInv
<1> DEFINE Counting == {"lanes", "cards", "spawning", "recording"}
           Size(a) == Cardinality(Supervised(s, board[s], a))
<1>0. \A a \in Assignees : running[s][a] \in Nat
  BY DEF TypeOK, SchedulerTypeOK
\* The scheduler itself stands still, or goes on without counting.
<1>1. ASSUME spawned' = spawned, board'[s] = board[s], running'[s] = running[s], lane'[s] = lane[s],
             spc'[s] \in Counting => spc[s] \in Counting /\ (spc[s] = "recording" => spc'[s] = "recording")
      PROVE  CountInv(s)'
  <2> SUFFICES ASSUME spc'[s] \in Counting, NEW a \in Assignees
               PROVE  Cardinality(Supervised(s, board[s], a)') <= running[s][a] + Uncounted(s, a)'
    BY <1>1 DEF CountInv
  <2>1. Size(a) <= running[s][a] + Uncounted(s, a)
    BY <1>1 DEF CountInv
  <2>2. Uncounted(s, a) \in Nat /\ Uncounted(s, a)' \in Nat /\ Uncounted(s, a) <= Uncounted(s, a)'
    BY <1>1 DEF Uncounted
  <2>3. /\ Size(a) \in Nat /\ Cardinality(Supervised(s, board[s], a)') \in Nat
        /\ Cardinality(Supervised(s, board[s], a)') <= Size(a)
    BY <1>1, FewerRunning
  <2> QED BY <1>0, <2>1, <2>2, <2>3
<1>2. ASSUME NEW q \in Schedulers, SpawnSupervisor(q) PROVE CountInv(s)'
  <2> SUFFICES ASSUME spc'[s] \in Counting, NEW a \in Assignees
               PROVE  Cardinality(Supervised(s, board[s], a)') <= running[s][a] + Uncounted(s, a)'
    BY <1>2 DEF CountInv, SpawnSupervisor
  <2>1. spc[s] \in Counting
    BY <1>2 DEF SpawnSupervisor, Go, TypeOK, SchedulerTypeOK
  <2>2. Size(a) <= running[s][a] + Uncounted(s, a)
    BY <2>1 DEF CountInv
  <2>3. Uncounted(s, a)' = Uncounted(s, a) + (IF s = q /\ a = lane[q] THEN 1 ELSE 0) /\ Uncounted(s, a) \in Nat
    BY <1>2 DEF SpawnSupervisor, Go, Uncounted, TypeOK, SchedulerTypeOK
  <2>4. /\ Size(a) \in Nat /\ Cardinality(Supervised(s, board[s], a)') \in Nat
        /\ Cardinality(Supervised(s, board[s], a)') <= Size(a) + (IF s = q /\ a = lane[q] THEN 1 ELSE 0)
    <3>1. board'[s] = board[s] /\ (s = q => board[s] = board[q])
      BY <1>2 DEF SpawnSupervisor
    <3>2. /\ Size(a) \in Nat /\ Cardinality(Supervised(s, board[s], a)') \in Nat
          /\ Cardinality(Supervised(s, board[s], a)') <= Size(a)
               + (IF s = q /\ board[s] = board[q] /\ a = lane[q] THEN 1 ELSE 0)
      BY <1>2, <3>1, OneMoreRunning
    <3> QED BY <3>1, <3>2
  <2> QED BY <1>0, <2>2, <2>3, <2>4
<1>3. ASSUME NEW q \in Schedulers, Record(q) PROVE CountInv(s)'
  <2>1. CASE q # s
    BY <1>1, <1>3, <2>1 DEF Record, Go, TypeOK, SchedulerTypeOK
  <2>2. CASE q = s
    <3> SUFFICES ASSUME NEW a \in Assignees
                 PROVE  Cardinality(Supervised(s, board[s], a)') <= running'[s][a] + Uncounted(s, a)'
      BY <1>3 DEF CountInv, Record
    <3>1. Size(a) <= running[s][a] + Uncounted(s, a)
      BY <1>3, <2>2 DEF CountInv, Record, Go
    <3>2. Uncounted(s, a)' = 0 /\ running'[s][a] = running[s][a] + Uncounted(s, a) /\ Uncounted(s, a) \in Nat
      BY <1>3, <2>2 DEF Record, Go, Uncounted, TypeOK, SchedulerTypeOK
    <3>3. /\ Size(a) \in Nat /\ Cardinality(Supervised(s, board[s], a)') \in Nat
          /\ Cardinality(Supervised(s, board[s], a)') <= Size(a)
      BY <1>3, FewerRunning DEF Record
    <3> QED BY <1>0, <3>1, <3>2, <3>3
  <2> QED BY <2>1, <2>2
<1>4. ASSUME NEW q \in Schedulers, OpenBoard(q) PROVE CountInv(s)'
  <2>1. CASE q # s
    BY <1>1, <1>4, <2>1 DEF OpenBoard, Go, TypeOK, SchedulerTypeOK
  <2>2. CASE q = s
    <3>1. PICK b \in boardsLeft[s] : /\ board' = [board EXCEPT ![s] = b]
             /\ running' = [running EXCEPT ![s] = [a \in Assignees |-> Cardinality(Listed(b, a, "running"))]]
      BY <1>4, <2>2 DEF OpenBoard
    <3>0. /\ board'[s] = b /\ spc'[s] = "lanes"
          /\ \A a \in Assignees : running'[s][a] = Cardinality(Listed(b, a, "running"))
      BY <1>4, <2>2, <3>1 DEF OpenBoard, Go, TypeOK, SchedulerTypeOK
    <3> SUFFICES ASSUME NEW a \in Assignees
                 PROVE  Cardinality(Supervised(s, board[s], a)') <= running'[s][a] + Uncounted(s, a)'
      BY DEF CountInv
    <3>2. Supervised(s, board[s], a)' \in SUBSET Listed(b, a, "running")
      BY <1>4, <3>0 DEF OpenBoard, boardVars, Supervised, Listed, LaneInv, BoardInv, OpenRunHoldsCard
    <3>3. Listed(b, a, "running") \in SUBSET Tasks
      BY DEF Listed
    <3>4. Uncounted(s, a)' = 0
      BY <3>0 DEF Uncounted
    <3>5. /\ Cardinality(Listed(b, a, "running")) \in Nat
          /\ Cardinality(Supervised(s, board[s], a)') <= Cardinality(Listed(b, a, "running"))
      BY <3>2, <3>3, FewerCards
    <3> QED BY <3>0, <3>4, <3>5
  <2> QED BY <2>1, <2>2
<1>5. ASSUME NEW q \in Schedulers, ListLane(q) PROVE CountInv(s)'
  <2>1. CASE q # s
    BY <1>1, <1>5, <2>1 DEF ListLane, Go, TypeOK, SchedulerTypeOK
  <2>2. CASE q = s
    <3> SUFFICES ASSUME NEW a \in Assignees
                 PROVE  Cardinality(Supervised(s, board[s], a)') <= running[s][a]
      BY <1>5, <2>2 DEF CountInv, ListLane, Go, Uncounted, TypeOK, SchedulerTypeOK
    <3>1. Size(a) <= running[s][a]
      <4>1. spc[s] = "lanes" /\ Uncounted(s, a) = 0
        BY <1>5, <2>2 DEF ListLane, Go, Uncounted
      <4>2. Size(a) <= running[s][a] + 0
        BY <4>1 DEF CountInv
      <4> QED BY <1>0, <4>2
    <3>2. /\ Size(a) \in Nat /\ Cardinality(Supervised(s, board[s], a)') \in Nat
          /\ Cardinality(Supervised(s, board[s], a)') <= Size(a)
      BY <1>5, FewerRunning DEF ListLane
    <3> QED BY <1>0, <3>1, <3>2
  <2> QED BY <2>1, <2>2
<1>6. ASSUME NEW q \in Schedulers, StartTick(q) PROVE CountInv(s)'
  BY <1>1, <1>6 DEF StartTick, Go, TypeOK, SchedulerTypeOK
<1>7. ASSUME NEW q \in Schedulers, LaneDone(q) PROVE CountInv(s)'
  BY <1>1, <1>7 DEF LaneDone, Go, TypeOK, SchedulerTypeOK
<1>8. ASSUME NEW q \in Schedulers, ClaimWon(q) PROVE CountInv(s)'
  BY <1>1, <1>8 DEF ClaimWon, Go, TypeOK, SchedulerTypeOK
<1>9. ASSUME NEW q \in Schedulers, SpawnFails(q) PROVE CountInv(s)'
  BY <1>1, <1>9 DEF SpawnFails, Go, TypeOK, SchedulerTypeOK
<1>10. ASSUME NEW q \in Schedulers, EndTick(q) PROVE CountInv(s)'
  BY <1>1, <1>10 DEF EndTick, Go, TypeOK, SchedulerTypeOK
<1>11. ASSUME NEW q \in Schedulers, ClaimLost(q) \/ SkipBoard(q) PROVE CountInv(s)'
  BY <1>1, <1>11 DEF ClaimLost, SkipBoard
<1>12. ASSUME NEW q \in Schedulers, LeaveBoard(q) \/ Die(q) PROVE CountInv(s)'
  <2>1. CASE q # s
    BY <1>1, <1>12, <2>1 DEF LeaveBoard, Die, TypeOK, SchedulerTypeOK
  <2>2. CASE q = s
    BY <1>12, <2>2 DEF LeaveBoard, Die, CountInv, TypeOK, SchedulerTypeOK
  <2> QED BY <2>1, <2>2
<1>13. ASSUME NEW r \in Runs, Finish(r) \/ Release(r) PROVE CountInv(s)'
  BY <1>1, <1>13 DEF Finish, Release, Others, localVars
<1>14. ASSUME NEW t \in Tasks, RequeueCard(t) \/ Reassign(t) PROVE CountInv(s)'
  BY <1>1, <1>14 DEF RequeueCard, Reassign, Others, localVars
<1>15. CASE UNCHANGED vars
  BY <1>1, <1>15 DEF vars
<1> QED
  BY <1>2, <1>3, <1>4, <1>5, <1>6, <1>7, <1>8, <1>9, <1>10, <1>11, <1>12, <1>13, <1>14, <1>15 DEF Next, Tick

\* A start is preceded by a look at the limit, and nothing else adds to a lane.
LEMMA CapStep ==
  ASSUME SchedulerInv, [Next]_vars, CapPerScheduler, \A s \in Schedulers : CountInv(s)
  PROVE  CapPerScheduler'
<1> SUFFICES ASSUME NEW s \in Schedulers, NEW b \in Boards, NEW a \in Assignees
             PROVE  Cardinality(Supervised(s, b, a)') <= Concurrency[a]
  BY DEF CapPerScheduler
<1>0. Concurrency[a] \in Nat /\ Cardinality(Supervised(s, b, a)) <= Concurrency[a]
  BY SchedulerAssumption DEF CapPerScheduler
<1>1. CASE spawned' = spawned
  BY <1>0, <1>1, FewerRunning
<1>2. ASSUME NEW q \in Schedulers, SpawnSupervisor(q)
      PROVE  Cardinality(Supervised(s, b, a)') <= Concurrency[a]
  <2>1. CASE s = q /\ b = board[q] /\ a = lane[q]
    <3>1. running[s][a] < Concurrency[a] /\ running[s][a] \in Nat
      <4>1. spc[q] = "spawning"
        BY <1>2 DEF SpawnSupervisor, Go
      <4>2. running[q][lane[q]] < Concurrency[lane[q]]
        BY <4>1 DEF SchedulerInv, HoldInv
      <4>3. running \in [Schedulers -> [Assignees -> Nat]]
        BY DEF SchedulerInv, TypeOK, SchedulerTypeOK
      <4> QED BY <2>1, <4>2, <4>3
    <3>2. Cardinality(Supervised(s, b, a)) <= running[s][a]
      BY <1>2, <2>1, <3>1 DEF SpawnSupervisor, Go, CountInv, Uncounted
    <3> QED BY <1>0, <1>2, <2>1, <3>1, <3>2, OneMoreRunning
  <2>2. CASE ~(s = q /\ b = board[q] /\ a = lane[q])
    BY <1>0, <1>2, <2>2, OneMoreRunning
  <2> QED BY <2>1, <2>2
<1> QED BY <1>1, <1>2, ClaimsGrow

-----------------------------------------------------------------------------
(***************************************************************************)
(* The recorded pid                                                        *)
(***************************************************************************)
\* While the only scheduler is about to record a pid, no other run gets the card.
LEMMA PidStep ==
  ASSUME SchedulerInv, SchedulerInv', [Next]_vars, RunsStay, PidInv, \A s, q \in Schedulers : s = q
  PROVE  PidInv'
<1> USE DEF SchedulerInv
<1>a. \A r \in Runs : r <= lastRun => runs'[r].task = runs[r].task
  BY DEF RunsStay
<1>b. \A s \in Schedulers : spc[s] \in {"spawning", "recording"} => current[s] \in Runs /\ current[s] <= lastRun
  BY DEF HoldInv
\* Nothing new runs, and no pid is recorded.
<1>0. ASSUME \A t \in Tasks : card'[t].status = "running" => card'[t] = card[t],
             \A s \in Schedulers : spc'[s] \in {"spawning", "recording"} =>
               spc[s] \in {"spawning", "recording"} /\ current'[s] = current[s]
      PROVE  PidInv'
  <2>1. WorkerPidIsCurrent'
    BY <1>0 DEF PidInv, WorkerPidIsCurrent
  <2>2. ASSUME NEW s \in Schedulers, spc'[s] \in {"spawning", "recording"}
        PROVE  card'[runs'[current'[s]].task].status = "running" => card'[runs'[current'[s]].task].run = current'[s]
    <3>1. current'[s] = current[s] /\ runs'[current[s]].task = runs[current[s]].task
      BY <1>0, <1>a, <1>b, <2>2
    <3>2. runs[current[s]].task \in Tasks
      BY <1>0, <1>b, <2>2, RunHasTask
    <3> QED BY <1>0, <2>2, <3>1, <3>2 DEF PidInv
  <2> QED BY <2>1, <2>2 DEF PidInv
<1>1. ASSUME NEW s \in Schedulers, ClaimWon(s) PROVE PidInv'
  <2>1. PICK t \in Tasks : /\ runs'[lastRun + 1].task = t
                          /\ card' = [card EXCEPT ![t] = [status |-> "running", run |-> lastRun + 1, pid |-> NoRun]]
    BY <1>1, ClaimWonRun
  <2>2. current'[s] = lastRun + 1
    BY <1>1 DEF ClaimWon, TypeOK, SchedulerTypeOK
  <2>3. WorkerPidIsCurrent'
    BY <2>1 DEF PidInv, WorkerPidIsCurrent, TypeOK, BoardTypeOK
  <2> QED BY <2>1, <2>2, <2>3 DEF PidInv, TypeOK, BoardTypeOK
<1>2. ASSUME NEW s \in Schedulers, Record(s) PROVE PidInv'
  <2>1. current[s] \in Runs /\ runs[current[s]].task \in Tasks
    BY <1>2, <1>b, RunHasTask DEF Record, Go
  <2>2. WorkerPidIsCurrent'
    BY <1>2, <2>1 DEF Record, Go, RecordWorkerPid, PidInv, WorkerPidIsCurrent, TypeOK, BoardTypeOK
  <2>3. \A q \in Schedulers : spc'[q] = "cards"
    BY <1>2 DEF Record, Go, TypeOK, SchedulerTypeOK
  <2> QED BY <2>2, <2>3 DEF PidInv
<1>3. ASSUME NEW s \in Schedulers, SpawnFails(s) PROVE PidInv'
  <2>1. current[s] \in Runs
    BY <1>3, <1>b DEF SpawnFails, Go
  <2>2. \A t \in Tasks : card'[t].status = "running" => card'[t] = card[t]
    BY <1>3, <2>1 DEF SpawnFails, FinishRun, MoveCard, boardVars, TypeOK, BoardTypeOK, BoardInv, OpenRunHoldsCard, Owner
  <2>3. \A q \in Schedulers : spc'[q] = "cards"
    BY <1>3 DEF SpawnFails, Go, TypeOK, SchedulerTypeOK
  <2> QED BY <1>0, <2>2, <2>3
<1>4. ASSUME NEW r \in Runs, Finish(r) \/ Release(r) PROVE PidInv'
  <2>1. \A t \in Tasks : card'[t].status = "running" => card'[t] = card[t]
    BY <1>4 DEF Finish, Release, MoveCard, Finished, TypeOK, BoardTypeOK, Owner
  <2> QED BY <1>0, <1>4, <2>1 DEF Finish, Release, Others, localVars
<1>5. ASSUME NEW t \in Tasks, RequeueCard(t) PROVE PidInv'
  <2>1. \A u \in Tasks : card'[u].status = "running" => card'[u] = card[u]
    BY <1>5 DEF RequeueCard, Requeue, TypeOK, BoardTypeOK
  <2> QED BY <1>0, <1>5, <2>1 DEF RequeueCard, Others, localVars
<1>6. ASSUME NEW t \in Tasks, Reassign(t) PROVE PidInv'
  BY <1>0, <1>6 DEF Reassign, boardVars, localVars
<1>7. CASE UNCHANGED vars
  BY <1>0, <1>7 DEF vars
<1>8. ASSUME NEW s \in Schedulers, StartTick(s) PROVE PidInv'
  BY <1>0, <1>8 DEF StartTick, Go, boardVars, TypeOK, SchedulerTypeOK
<1>9. ASSUME NEW s \in Schedulers, OpenBoard(s) PROVE PidInv'
  BY <1>0, <1>9 DEF OpenBoard, Go, boardVars, TypeOK, SchedulerTypeOK
<1>10. ASSUME NEW s \in Schedulers, ListLane(s) PROVE PidInv'
  BY <1>0, <1>10 DEF ListLane, Go, boardVars, TypeOK, SchedulerTypeOK
<1>11. ASSUME NEW s \in Schedulers, LaneDone(s) PROVE PidInv'
  BY <1>0, <1>11 DEF LaneDone, Go, boardVars, TypeOK, SchedulerTypeOK
<1>12. ASSUME NEW s \in Schedulers, ClaimLost(s) PROVE PidInv'
  BY <1>0, <1>12 DEF ClaimLost, boardVars, TypeOK, SchedulerTypeOK
<1>13. ASSUME NEW s \in Schedulers, SpawnSupervisor(s) PROVE PidInv'
  BY <1>0, <1>13 DEF SpawnSupervisor, Go, boardVars, TypeOK, SchedulerTypeOK
<1>14. ASSUME NEW s \in Schedulers, LeaveBoard(s) PROVE PidInv'
  BY <1>0, <1>14 DEF LeaveBoard, boardVars, TypeOK, SchedulerTypeOK
<1>15. ASSUME NEW s \in Schedulers, SkipBoard(s) PROVE PidInv'
  BY <1>0, <1>15 DEF SkipBoard, boardVars, TypeOK, SchedulerTypeOK
<1>16. ASSUME NEW s \in Schedulers, EndTick(s) PROVE PidInv'
  BY <1>0, <1>16 DEF EndTick, Go, boardVars, TypeOK, SchedulerTypeOK
<1>17. ASSUME NEW s \in Schedulers, Die(s) PROVE PidInv'
  BY <1>0, <1>17 DEF Die, boardVars, TypeOK, SchedulerTypeOK
<1> QED
  BY <1>1, <1>2, <1>3, <1>4, <1>5, <1>6, <1>7, <1>8, <1>9, <1>10, <1>11, <1>12, <1>13, <1>14, <1>15, <1>16, <1>17 DEF Next, Tick

-----------------------------------------------------------------------------
(***************************************************************************)
(* A lone scheduler and its board                                          *)
(***************************************************************************)
\* Only a won claim opens a run.
LEMMA NotClaimed ==
  ASSUME SchedulerInv, [Next]_vars, \A s \in Schedulers : ~ClaimWon(s)
  PROVE  lastRun' = lastRun
<1>1. ASSUME NEW s \in Schedulers, SpawnFails(s) PROVE lastRun' = lastRun
  BY <1>1 DEF SpawnFails, FinishRun, MoveCard, boardVars
<1>2. ASSUME NEW s \in Schedulers, Tick(s) \/ Die(s) PROVE lastRun' = lastRun
  BY <1>1, <1>2 DEF Tick, boardVars, StartTick, OpenBoard, ListLane, LaneDone, ClaimLost,
     SpawnSupervisor, Record, RecordWorkerPid, LeaveBoard, SkipBoard, EndTick, Die
<1>3. ASSUME NEW r \in Runs, Finish(r) \/ Release(r) PROVE lastRun' = lastRun
  BY <1>3 DEF Finish, Release, MoveCard
<1>4. ASSUME NEW t \in Tasks, RequeueCard(t) \/ Reassign(t) PROVE lastRun' = lastRun
  BY <1>4 DEF RequeueCard, Requeue, Reassign, boardVars
<1>5. CASE UNCHANGED vars
  BY <1>5 DEF vars
<1> QED BY <1>2, <1>3, <1>4, <1>5 DEF Next

\* No card that runs is reassigned.
LEMMA RunningKeepsLane ==
  ASSUME SchedulerInv, [Next]_vars, NEW t \in Tasks, card'[t].status = "running", card[t].status = "running"
  PROVE  assignee'[t] = assignee[t]
<1>1. CASE assignee' = assignee
  BY <1>1
<1>2. ASSUME NEW u \in Tasks, Reassign(u) PROVE assignee'[t] = assignee[t]
  BY <1>2 DEF Reassign, SchedulerInv, TypeOK, SchedulerTypeOK
<1> QED
  BY <1>1, <1>2, SMTT(30) DEF Next, Tick, vars, Others, StartTick, OpenBoard, ListLane, LaneDone, ClaimWon, ClaimLost,
     SpawnSupervisor, SpawnFails, Record, LeaveBoard, SkipBoard, EndTick, Die, Finish, Release, RequeueCard

\* What runs on a board in a lane, and does not run under a new run, did before.
LEMMA ListedBefore ==
  ASSUME SchedulerInv, [Next]_vars, NEW b, NEW a, NEW t \in Listed(b, a, "running")', card'[t].run <= lastRun
  PROVE  t \in Listed(b, a, "running") /\ card'[t].run = card[t].run
<1>1. t \in Tasks /\ card'[t].status = "running"
  BY DEF Listed
<1>2. card[t].status = "running" /\ card'[t].run = card[t].run
  BY <1>1, RunningStep DEF RunningStays
<1> QED BY <1>1, <1>2, RunningKeepsLane DEF Listed

\* A running card runs under a run that was opened for it.
LEMMA RunningRun ==
  ASSUME BoardInv, NEW t \in Tasks, card[t].status = "running"
  PROVE  card[t].run \in Runs /\ card[t].run <= lastRun /\ card[t].run # NoRun /\ runs[card[t].run].task = t
BY BoardAssumption DEF BoardInv, BoardTypeOK, OpenRunHoldsCard, RunsNumbered, Runs, NoRun

\* So without a claim nothing more runs.
LEMMA NothingMore ==
  ASSUME SchedulerInv, BoardInv', [Next]_vars, lastRun' = lastRun, NEW b, NEW a
  PROVE  /\ Listed(b, a, "running")' \in SUBSET Listed(b, a, "running")
         /\ \A t \in Listed(b, a, "running")' : card'[t].run = card[t].run
<1>1. ASSUME NEW t \in Listed(b, a, "running")'
      PROVE  t \in Listed(b, a, "running") /\ card'[t].run = card[t].run
  <2>1. t \in Tasks /\ card'[t].status = "running"
    BY DEF Listed
  <2>2. card'[t].run <= lastRun
    BY <2>1, BoardAssumption DEF BoardInv, BoardTypeOK, OpenRunHoldsCard, RunsNumbered, Runs
  <2> QED BY <2>2, ListedBefore
<1> QED BY <1>1

\* A claim adds the card it is for, to the lane that card is of.
LEMMA OneMoreListed ==
  ASSUME SchedulerInv, BoardInv', [Next]_vars, NEW s \in Schedulers, ClaimWon(s), BoardCountInv(s), NEW b,
         NEW a \in Assignees
  PROVE  \E u : /\ Listed(b, a, "running")' \in SUBSET (Listed(b, a, "running") \cup {u})
                /\ b # board[s] \/ a # lane[s] => Listed(b, a, "running")' \in SUBSET Listed(b, a, "running")
                /\ \A t \in Listed(b, a, "running")' :
                     card'[t].run # lastRun + 1 => t \in Listed(b, a, "running") /\ card'[t].run = card[t].run
<1>1. PICK u \in ready[s] :
         /\ u \in Tasks /\ runs'[lastRun + 1].task = u /\ lastRun' = lastRun + 1
         /\ card' = [card EXCEPT ![u] = [status |-> "running", run |-> lastRun + 1, pid |-> NoRun]]
  BY ClaimWonRun
<1>2. BoardOf[u] = board[s] /\ (assignee[u] = lane[s] \/ assignee[u] \notin Assignees) /\ assignee' = assignee
  BY DEF ClaimWon, Go, SchedulerInv, HoldInv, BoardCountInv, OfOtherLane
<1>3. ASSUME NEW t \in Listed(b, a, "running")', t # u
      PROVE  t \in Listed(b, a, "running") /\ card'[t].run = card[t].run
  BY <1>1, <1>2, <1>3 DEF Listed, SchedulerInv, TypeOK, BoardTypeOK
<1>4. card'[u].run = lastRun + 1
  BY <1>1 DEF SchedulerInv, TypeOK, BoardTypeOK
<1>5. u \in Listed(b, a, "running")' => b = board[s] /\ a = lane[s]
  BY <1>2 DEF Listed
<1> QED BY <1>1, <1>3, <1>4, <1>5

\* Between claims, a scheduler has counted every card that runs.
LEMMA AllCounted ==
  ASSUME SchedulerInv, NEW s \in Schedulers, BoardCountInv(s), ~Starting(s), NEW a
  PROVE  Counted(s, a) = Listed(board[s], a, "running")
<1>1. \A t \in Listed(board[s], a, "running") : card[t].run # NoRun
  BY RunningRun DEF Listed, SchedulerInv
<1> QED BY <1>1 DEF Counted, BoardCountInv

\* A start is preceded by a look at the limit, and nothing else makes a card run.
LEMMA BoardCapStep ==
  ASSUME SchedulerInv, BoardInv', [Next]_vars, BoardCapInv, \A s, q \in Schedulers : s = q
  PROVE  CapPerBoard'
<1> SUFFICES ASSUME NEW b \in Boards, NEW a \in Assignees
             PROVE  Cardinality(Listed(b, a, "running")') <= Concurrency[a]
  BY DEF CapPerBoard, Listed
<1>0. /\ Listed(b, a, "running") \in SUBSET Tasks
      /\ Cardinality(Listed(b, a, "running")) <= Concurrency[a] /\ Concurrency[a] \in Nat
  BY SchedulerAssumption DEF BoardCapInv, CapPerBoard, Listed
<1>1. CASE \A s \in Schedulers : ~ClaimWon(s)
  <2>1. Listed(b, a, "running")' \in SUBSET Listed(b, a, "running")
    BY <1>1, NotClaimed, NothingMore
  <2>2. /\ Cardinality(Listed(b, a, "running")) \in Nat /\ Cardinality(Listed(b, a, "running")') \in Nat
        /\ Cardinality(Listed(b, a, "running")') <= Cardinality(Listed(b, a, "running"))
    BY <1>0, <2>1, FewerCards
  <2> QED BY <1>0, <2>2
<1>2. ASSUME NEW s \in Schedulers, ClaimWon(s)
      PROVE  Cardinality(Listed(b, a, "running")') <= Concurrency[a]
  <2>0. BoardCountInv(s)
    BY DEF BoardCapInv
  <2>1. PICK u : /\ Listed(b, a, "running")' \in SUBSET (Listed(b, a, "running") \cup {u})
                 /\ b # board[s] \/ a # lane[s] => Listed(b, a, "running")' \in SUBSET Listed(b, a, "running")
    BY <1>2, <2>0, OneMoreListed
  <2>2. CASE b = board[s] /\ a = lane[s]
    <3>1. spc[s] = "cards" /\ running[s][a] < Concurrency[a] /\ running[s][a] \in Nat
      BY <1>0, <1>2, <2>2 DEF ClaimWon, Go, AtCap, SchedulerInv, TypeOK, SchedulerTypeOK
    <3>2. Cardinality(Counted(s, a)) <= running[s][a] /\ ~Starting(s)
      BY <2>0, <3>1 DEF BoardCountInv, Starting
    <3>3. Cardinality(Listed(b, a, "running")) <= running[s][a]
      BY <2>0, <2>2, <3>2, AllCounted
    <3>4. /\ Cardinality(Listed(b, a, "running")) \in Nat /\ Cardinality(Listed(b, a, "running")') \in Nat
          /\ Cardinality(Listed(b, a, "running")') <= Cardinality(Listed(b, a, "running")) + 1
      BY <1>0, <2>1, OneMoreCard
    <3> QED BY <1>0, <3>1, <3>3, <3>4
  <2>3. CASE b # board[s] \/ a # lane[s]
    <3>1. /\ Cardinality(Listed(b, a, "running")) \in Nat /\ Cardinality(Listed(b, a, "running")') \in Nat
          /\ Cardinality(Listed(b, a, "running")') <= Cardinality(Listed(b, a, "running"))
      BY <1>0, <2>1, <2>3, FewerCards
    <3> QED BY <1>0, <3>1
  <2> QED BY <2>2, <2>3
<1> QED BY <1>1, <1>2

\* Cards do not change from one lane to another.
LanesAreKept == ~Reassigning \/ \A a, b \in Assignees : a = b

\* What was not of another lane is not afterwards.
LEMMA LaneKept ==
  ASSUME LanesAreKept, SchedulerInv, [Next]_vars, NEW s \in Schedulers, lane'[s] \in Assignees, lane'[s] = lane[s],
         NEW t, ~OfOtherLane(s, t)
  PROVE  ~OfOtherLane(s, t)'
<1>1. assignee' = assignee \/ Reassigning
  BY SMTT(30) DEF Next, Tick, vars, Others, StartTick, OpenBoard, ListLane, LaneDone, ClaimWon, ClaimLost, SpawnSupervisor,
     SpawnFails, Record, LeaveBoard, SkipBoard, EndTick, Die, Finish, Release, RequeueCard, Reassign
<1> QED BY <1>1 DEF LanesAreKept, OfOtherLane

\* A scheduler lists and claims for the lane it serves, and holds a run only while
\* it starts its supervisor.
LEMMA BoardLaneStep ==
  ASSUME LanesAreKept, SchedulerInv, SchedulerInv', RunsStay, [Next]_vars, NEW s \in Schedulers,
         \A q \in Schedulers : q = s, BoardCountInv(s)
  PROVE  /\ ~Starting(s)' => current'[s] = NoRun
         /\ \A t \in ready'[s] : ~OfOtherLane(s, t)'
         /\ Starting(s)' => ~OfOtherLane(s, runs[current[s]].task)'
<1> DEFINE G == /\ ~Starting(s)' => current'[s] = NoRun
                /\ \A t \in ready'[s] : ~OfOtherLane(s, t)'
                /\ Starting(s)' => ~OfOtherLane(s, runs[current[s]].task)'
<1> SUFFICES G
  OBVIOUS
<1> HIDE DEF G
<1>0. lane'[s] \in Assignees
  BY DEF SchedulerInv, TypeOK, SchedulerTypeOK
<1>a. \A t \in ready[s] : ~OfOtherLane(s, t)
  BY DEF BoardCountInv
\* The scheduler goes on with the run it has, or without one ...
<1>1. ASSUME lane'[s] = lane[s], ready'[s] \subseteq ready[s], current'[s] = current[s],
             Starting(s)' <=> Starting(s)
      PROVE  G
  <2>1. PICK u : u = runs[current[s]].task
    OBVIOUS
  <2>2. Starting(s) => runs'[current'[s]].task = u
    BY <1>1, <2>1 DEF Starting, SchedulerInv, HoldInv, RunsStay
  <2>3. Starting(s) => ~OfOtherLane(s, u)'
    BY <1>0, <1>1, <2>1, LaneKept DEF BoardCountInv
  <2>4. \A t \in ready'[s] : ~OfOtherLane(s, t)'
    BY <1>0, <1>a, <1>1, LaneKept
  <2>5. ~Starting(s) => current[s] = NoRun
    BY DEF BoardCountInv
  <2> QED BY <1>1, <2>2, <2>3, <2>4, <2>5 DEF G, OfOtherLane
\* ... or has done with it.
<1>2. ASSUME lane'[s] = lane[s], ready'[s] \subseteq ready[s], current'[s] = NoRun, ~Starting(s)'
      PROVE  G
  BY <1>0, <1>a, <1>2, LaneKept DEF G
<1>3. ASSUME ClaimWon(s) PROVE G
  <2>1. PICK t \in ready[s] :
          /\ lastRun + 1 \in Runs /\ runs'[lastRun + 1].task = t /\ ready' = [ready EXCEPT ![s] = @ \ {t}]
    BY <1>3, ClaimWonRun
  <2>2. /\ ready'[s] \subseteq ready[s] /\ current'[s] = lastRun + 1 /\ lane'[s] = lane[s]
        /\ Starting(s)'
    BY <1>3, <2>1 DEF ClaimWon, Go, Starting, SchedulerInv, TypeOK, SchedulerTypeOK
  <2>3. ~OfOtherLane(s, t)'
    BY <1>0, <1>a, <2>1, <2>2, LaneKept
  <2>4. \A u \in ready'[s] : ~OfOtherLane(s, u)'
    BY <1>0, <1>a, <2>2, LaneKept
  <2> QED BY <2>1, <2>2, <2>3, <2>4 DEF G, OfOtherLane
<1>4. ASSUME ListLane(s) PROVE G
  <2>1. PICK a \in lanesLeft[s] : lane' = [lane EXCEPT ![s] = a] /\ ready' = [ready EXCEPT ![s] = Listed(board[s], a, "ready")]
    BY <1>4 DEF ListLane
  <2>2. lane'[s] = a /\ ready'[s] = Listed(board[s], a, "ready") /\ ~Starting(s) /\ ~Starting(s)' /\ current'[s] = current[s]
        /\ assignee' = assignee
    BY <1>4, <2>1 DEF ListLane, Go, Starting, SchedulerInv, TypeOK, SchedulerTypeOK
  <2> QED BY <2>2 DEF G, OfOtherLane, Listed, BoardCountInv
<1>5. ASSUME SpawnFails(s) \/ Record(s) \/ LeaveBoard(s) \/ Die(s) PROVE G
  BY <1>2, <1>5 DEF SpawnFails, Record, LeaveBoard, Die, Go, Starting, SchedulerInv, TypeOK, SchedulerTypeOK
<1>6. ASSUME StartTick(s) \/ OpenBoard(s) \/ LaneDone(s) \/ ClaimLost(s) \/ SpawnSupervisor(s) \/ SkipBoard(s) \/ EndTick(s)
      PROVE  G
  BY <1>1, <1>6 DEF StartTick, OpenBoard, LaneDone, ClaimLost, SpawnSupervisor, SkipBoard, EndTick, Go, Starting,
     SchedulerInv, TypeOK, SchedulerTypeOK
<1>7. ASSUME NEW r \in Runs, Finish(r) \/ Release(r) PROVE G
  BY <1>1, <1>7 DEF Finish, Release, Others, localVars, Starting
<1>8. ASSUME NEW t \in Tasks, RequeueCard(t) \/ Reassign(t) PROVE G
  BY <1>1, <1>8 DEF RequeueCard, Reassign, Others, localVars, Starting
<1>9. CASE UNCHANGED vars
  BY <1>1, <1>9 DEF vars, Starting
<1> QED BY <1>3, <1>4, <1>5, <1>6, <1>7, <1>8, <1>9 DEF Next, Tick

\* A card that stops being the one in hand has been counted, or does not run.
LEMMA BoardCountStep ==
  ASSUME SchedulerInv, SchedulerInv', [Next]_vars, NEW s \in Schedulers, \A q \in Schedulers : q = s,
         BoardCountInv(s), "release" \notin SchedulerFaults, NEW a \in Assignees,
         spc'[s] \in {"lanes", "cards", "spawning", "recording"}
  PROVE  Cardinality(Counted(s, a)') <= running'[s][a]
<1> DEFINE Counting == {"lanes", "cards", "spawning", "recording"}
           G == Cardinality(Counted(s, a)') <= running'[s][a]
<1> HIDE DEF G
<1> SUFFICES G
  BY DEF G
<1>0. /\ Counted(s, a) \in SUBSET Tasks /\ running[s][a] \in Nat /\ running'[s][a] \in Nat
      /\ spc[s] \in Counting => Cardinality(Counted(s, a)) <= running[s][a]
  BY DEF BoardCountInv, Counted, Listed, SchedulerInv, TypeOK, SchedulerTypeOK
\* Nothing is counted, and nothing more is to be.
<1>1. ASSUME spc[s] \in Counting, running'[s][a] = running[s][a], Counted(s, a)' \in SUBSET Counted(s, a)
      PROVE  G
  <2>1. /\ Cardinality(Counted(s, a)) \in Nat /\ Cardinality(Counted(s, a)') \in Nat
        /\ Cardinality(Counted(s, a)') <= Cardinality(Counted(s, a))
    BY <1>0, <1>1, FewerCards
  <2> QED BY <1>0, <1>1, <2>1 DEF G
\* Nothing happens to what is counted but by the board's other users.
<1>2. ASSUME lastRun' = lastRun, UNCHANGED <<spc, board, running, current>> PROVE G
  <2>1. Counted(s, a)' \in SUBSET Counted(s, a)
    BY <1>2, NothingMore DEF Counted, SchedulerInv
  <2> QED BY <1>1, <1>2, <2>1
<1>3. ASSUME ClaimWon(s) PROVE G
  <2>1. current'[s] = lastRun + 1 /\ board'[s] = board[s] /\ running' = running /\ spc[s] = "cards" /\ ~Starting(s)
    BY <1>3 DEF ClaimWon, Go, Starting, SchedulerInv, TypeOK, SchedulerTypeOK
  <2>2. \A t \in Listed(board[s], a, "running")' :
          card'[t].run # lastRun + 1 => t \in Listed(board[s], a, "running") /\ card'[t].run = card[t].run
    BY <1>3, <2>1, OneMoreListed DEF SchedulerInv
  <2>3. Counted(s, a) = Listed(board[s], a, "running")
    BY <2>1, AllCounted
  <2>4. Counted(s, a)' \in SUBSET Counted(s, a)
    BY <2>1, <2>2, <2>3 DEF Counted
  <2> QED BY <1>1, <2>1, <2>4
<1>4. ASSUME SpawnFails(s) PROVE G
  <2>1. /\ spc[s] = "spawning" /\ FinishRun(current[s], "blocked", "unspawned")
        /\ current'[s] = NoRun /\ board'[s] = board[s] /\ running' = running /\ ~ClaimWon(s)
    BY <1>4 DEF SpawnFails, Go, ClaimWon, SchedulerInv, TypeOK, SchedulerTypeOK
  <2>2. lastRun' = lastRun
    BY <2>1, NotClaimed
  <2>3. ASSUME NEW t \in Listed(board[s], a, "running")', card[t].run = current[s] PROVE FALSE
    <3>1. t \in Tasks /\ card[t].status = "running" /\ card'[t].status = "running"
      BY <2>2, <2>3, NothingMore DEF Listed, SchedulerInv
    <3>2. Owner(current[s]) /\ runs[current[s]].task = t
      BY <2>3, <3>1, HolderOwns, RunningRun DEF SchedulerInv
    <3> QED BY <2>1, <3>1, <3>2 DEF FinishRun, MoveCard, SchedulerInv, TypeOK, BoardTypeOK
  <2>4. Counted(s, a)' \in SUBSET Counted(s, a)
    BY <2>1, <2>2, <2>3, NothingMore DEF Counted, SchedulerInv
  <2> QED BY <1>1, <2>1, <2>4
<1>5. ASSUME Record(s) PROVE G
  <2>1. /\ spc[s] = "recording" /\ board'[s] = board[s] /\ ~ClaimWon(s)
        /\ running'[s][a] = running[s][a] + (IF a = lane[s] THEN 1 ELSE 0)
    BY <1>5 DEF Record, Go, ClaimWon, SchedulerInv, TypeOK, SchedulerTypeOK
  <2>2. lastRun' = lastRun
    BY <2>1, NotClaimed
  <2> DEFINE u == runs[current[s]].task
  <2>3. ASSUME NEW t \in Counted(s, a)', t \notin Counted(s, a)
        PROVE  t = u /\ a = lane[s]
    <3>1. t \in Listed(board[s], a, "running") /\ card[t].run = current[s]
      BY <2>1, <2>2, <2>3, NothingMore DEF Counted, SchedulerInv
    <3>2. t = u
      BY <3>1, RunningRun DEF Listed, SchedulerInv
    <3> QED BY <2>1, <3>1, <3>2 DEF Listed, BoardCountInv, Starting, OfOtherLane
  <2>4. CASE a = lane[s]
    <3>1. Counted(s, a)' \in SUBSET (Counted(s, a) \cup {u})
      BY <2>3
    <3>2. /\ Cardinality(Counted(s, a)) \in Nat /\ Cardinality(Counted(s, a)') \in Nat
          /\ Cardinality(Counted(s, a)') <= Cardinality(Counted(s, a)) + 1
      BY <1>0, <3>1, OneMoreCard
    <3> QED BY <1>0, <2>1, <2>4, <3>2 DEF G
  <2>5. CASE a # lane[s]
    BY <1>0, <1>1, <2>1, <2>3, <2>5
  <2> QED BY <2>4, <2>5
<1>6. ASSUME OpenBoard(s) PROVE G
  <2>1. PICK b \in boardsLeft[s] : /\ board' = [board EXCEPT ![s] = b]
           /\ running' = [running EXCEPT ![s] = [c \in Assignees |-> Cardinality(Listed(b, c, "running"))]]
    BY <1>6 DEF OpenBoard
  <2>2. board'[s] = b /\ running'[s][a] = Cardinality(Listed(b, a, "running")) /\ UNCHANGED <<card, assignee>>
    BY <1>6, <2>1 DEF OpenBoard, boardVars, SchedulerInv, TypeOK, SchedulerTypeOK
  <2>3. Counted(s, a)' \in SUBSET Listed(b, a, "running") /\ Listed(b, a, "running") \in SUBSET Tasks
    BY <2>2 DEF Counted, Listed
  <2>4. Cardinality(Counted(s, a)') <= Cardinality(Listed(b, a, "running"))
    BY <2>3, FewerCards
  <2> QED BY <2>2, <2>4 DEF G
<1>7. ASSUME ListLane(s) \/ LaneDone(s) \/ ClaimLost(s) \/ SpawnSupervisor(s) PROVE G
  <2>1. spc[s] \in Counting /\ UNCHANGED <<card, assignee, board, running, current>>
    BY <1>7 DEF ListLane, LaneDone, ClaimLost, SpawnSupervisor, Go, boardVars
  <2>2. Counted(s, a)' = Counted(s, a)
    BY <2>1 DEF Counted, Listed
  <2> QED BY <1>1, <2>1, <2>2
<1>8. ASSUME StartTick(s) \/ EndTick(s) \/ SkipBoard(s) \/ LeaveBoard(s) \/ Die(s) PROVE G
  BY <1>8 DEF StartTick, EndTick, SkipBoard, LeaveBoard, Die, Go, SchedulerInv, TypeOK, SchedulerTypeOK
<1>9. ASSUME NEW r \in Runs, Finish(r) \/ Release(r) PROVE G
  BY <1>2, <1>9 DEF Finish, Release, MoveCard, Others, localVars
<1>10. ASSUME NEW t \in Tasks, RequeueCard(t) \/ Reassign(t) PROVE G
  BY <1>2, <1>10 DEF RequeueCard, Requeue, Reassign, Others, localVars, boardVars
<1>11. CASE UNCHANGED vars
  BY <1>2, <1>11 DEF vars
<1> QED BY <1>3, <1>4, <1>5, <1>6, <1>7, <1>8, <1>9, <1>10, <1>11 DEF Next, Tick

-----------------------------------------------------------------------------
(***************************************************************************)
(* The theorems                                                            *)
(***************************************************************************)
\* Whatever schedulers, supervisors, operators and Hermes do in whatever order,
\* claims are of distinct runs, a supervisor is started once per claim, and the
\* types are kept (scheduler.py:62-119).
THEOREM SchedulerCorrect == Spec => []SchedulerInv
<1>1. Init => SchedulerInv
  BY InvInit
<1>2. SchedulerInv /\ [Next]_vars => SchedulerInv'
  BY InvStep
<1> QED BY <1>1, <1>2, PTL DEF Spec

\* Among them the counter of running cards, which never goes negative.
THEOREM TypeCorrect == Spec => []TypeOK
<1>1. SchedulerInv => TypeOK
  BY DEF SchedulerInv
<1> QED BY <1>1, SchedulerCorrect, PTL

\* Unless the scheduler's process dies between the claim and the start, or the
\* failed start cannot be reported, every claim has its supervisor or is about to
\* (scheduler.py:85-92, :121-126).
THEOREM ClaimsRemembered ==
  ASSUME {"die", "release"} \cap SchedulerFaults = {}
  PROVE  Spec => []NoForgottenClaim
<1>1. Init => NoForgottenClaim
  BY DEF Init, BoardInit, NoForgottenClaim, Owner
<1>2. SchedulerInv /\ NoForgottenClaim /\ [Next]_vars => NoForgottenClaim'
  BY InvStep, ForgetStep DEF SchedulerInv
<1> QED BY <1>1, <1>2, SchedulerCorrect, PTL DEF Spec

\* The cap of a lane holds for every scheduler by itself, for any number of them,
\* of lanes and of boards, with any failure, as long as no card changes lanes
\* between being listed and being claimed (scheduler.py:68-93).
THEOREM CapHolds ==
  ASSUME ~Reassigning
  PROVE  Spec => []CapPerScheduler
<1>1. Init => CapInv
  <2>1. Cardinality({}) = 0
    BY FS_EmptySet
  <2>2. ASSUME Init PROVE \A s, b, a : Supervised(s, b, a) = {}
    BY <2>2 DEF Init, Supervised
  <2> SUFFICES ASSUME Init PROVE CapInv
    OBVIOUS
  <2>3. LaneInv /\ \A s \in Schedulers : CountInv(s)
    BY DEF Init, LaneInv, CountInv
  <2>4. ASSUME NEW s \in Schedulers, NEW b \in Boards, NEW a \in Assignees
        PROVE  Cardinality(Supervised(s, b, a)) <= Concurrency[a]
    <3>1. Supervised(s, b, a) = {}
      BY <2>2
    <3>2. Concurrency[a] \in Nat
      BY SchedulerAssumption
    <3> QED BY <2>1, <3>1, <3>2
  <2> QED BY <2>3, <2>4 DEF CapInv, CapPerScheduler
<1>2. SchedulerInv /\ CapInv /\ [Next]_vars => CapInv'
  BY InvStep, LaneStep, CountStep, CapStep DEF CapInv
<1>3. CapInv => CapPerScheduler
  BY DEF CapInv
<1> QED BY <1>1, <1>2, <1>3, SchedulerCorrect, PTL DEF Spec

\* A lone scheduler records the pid of the supervisor that holds the card, although
\* recording is not fenced and Hermes may take the card away in between; two
\* schedulers may not (scheduler.py:92).
THEOREM PidIsCurrent ==
  ASSUME \A s, q \in Schedulers : s = q
  PROVE  Spec => []WorkerPidIsCurrent
<1>1. Init => PidInv
  BY DEF Init, BoardInit, PidInv, WorkerPidIsCurrent
<1>2. SchedulerInv /\ PidInv /\ [Next]_vars => PidInv'
  BY InvStep, PidStep
<1>3. PidInv => WorkerPidIsCurrent
  BY DEF PidInv
<1> QED BY <1>1, <1>2, <1>3, SchedulerCorrect, PTL DEF Spec

\* A lone scheduler keeps every lane of every board within its concurrency, whoever
\* started what runs there: also counting claims whose supervisor is still to come,
\* supervisors of an earlier life of the scheduler, and tasks whose count it has
\* lost to an exception.  It takes that a failed start can be reported, and that no
\* card changes from one lane to another (scheduler.py:68-93, :121-126).
THEOREM CapHoldsPerBoard ==
  ASSUME \A s, q \in Schedulers : s = q, "release" \notin SchedulerFaults,
         ~Reassigning \/ \A a, b \in Assignees : a = b
  PROVE  Spec => []CapPerBoard
<1>1. Init => BoardCapInv
  <2> SUFFICES ASSUME Init PROVE BoardCapInv
    OBVIOUS
  <2>1. \A b, a : Listed(b, a, "running") = {}
    BY DEF Init, BoardInit, Listed
  <2>2. CapPerBoard
    BY <2>1, FS_EmptySet, SchedulerAssumption DEF CapPerBoard
  <2>3. \A s \in Schedulers : BoardCountInv(s)
    BY DEF Init, BoardCountInv, Starting
  <2> QED BY <2>2, <2>3 DEF BoardCapInv
<1>2. SchedulerInv /\ BoardCapInv /\ [Next]_vars => BoardCapInv'
  <2> SUFFICES ASSUME SchedulerInv, BoardCapInv, [Next]_vars PROVE BoardCapInv'
    OBVIOUS
  <2>1. SchedulerInv' /\ RunsStay /\ BoardInv'
    BY InvStep DEF SchedulerInv
  <2>2. CapPerBoard'
    BY <2>1, BoardCapStep
  <2>3. ASSUME NEW s \in Schedulers PROVE BoardCountInv(s)'
    <3>1. BoardCountInv(s) /\ LanesAreKept
      BY DEF BoardCapInv, LanesAreKept
    <3>2. /\ ~Starting(s)' => current'[s] = NoRun
          /\ \A t \in ready'[s] : ~OfOtherLane(s, t)'
          /\ Starting(s)' => ~OfOtherLane(s, runs[current[s]].task)'
      BY <2>1, <3>1, BoardLaneStep
    <3>3. ASSUME spc'[s] \in {"lanes", "cards", "spawning", "recording"}, NEW a \in Assignees
          PROVE  Cardinality(Counted(s, a)') <= running'[s][a]
      BY <2>1, <3>1, <3>3, BoardCountStep
    <3> QED BY <3>2, <3>3 DEF BoardCountInv
  <2> QED BY <2>2, <2>3 DEF BoardCapInv
<1>3. BoardCapInv => CapPerBoard
  BY DEF BoardCapInv
<1> QED BY <1>1, <1>2, <1>3, SchedulerCorrect, PTL DEF Spec
=============================================================================
