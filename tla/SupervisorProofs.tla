--------------------------- MODULE SupervisorProofs ---------------------------
(***************************************************************************)
(* Proofs about module Supervisor, for any cards, any number of runs, any  *)
(* set of failures, and both modes of recording the pid.                   *)
(***************************************************************************)
EXTENDS Supervisor, BoardProofs

USE DEF Step, Raise, Rest, Stop, supVars

\* lifecycle.apply leaves the exit code 0 to its own successful writes, and
\* writes nothing for a cancelled run.
LEMMA PlanFacts ==
  ASSUME NEW lane \in Lanes, NEW status
  PROVE  /\ Plan(lane, status, PidTracked).to \in Finished \cup {"none"}
         /\ Plan(lane, status, PidTracked).code \in ExitCodes \ {ExitOk}
         /\ status = "cancelled" => Plan(lane, status, PidTracked).to = "none"
BY DEF Plan, Write, NoWrite, FailureCode, Finished, ExitCodes, ExitOk, ExitFailed,
   ExitRateLimited, ExitTerminal, ExitCancelled

\* A step that concerns one run keeps the invariant as soon as it keeps the
\* types, the board's invariant and RunInv of that run.
LEMMA OneRunStep ==
  ASSUME SupervisorInv, ProcessTypeOK', BoardInv', NEW r \in Runs, RunInv(r)', lastRun' = lastRun,
         \A q \in Runs \ {r} : /\ runs'[q] = runs[q] /\ handoff'[q] = handoff[q]
                               /\ pc'[q] = pc[q] /\ term'[q] = term[q] /\ child'[q] = child[q]
                               /\ result'[q] = result[q] /\ code'[q] = code[q]
  PROVE  SupervisorInv'
<1>1. ASSUME NEW q \in Runs PROVE RunInv(q)'
  <2>1. CASE q = r BY <2>1
  <2>2. CASE q # r
    BY <2>2 DEF SupervisorInv, RunInv, HandoffInv, WorkerInv, VerdictInv, SignalInv,
       GroupUp, Verdict
  <2> QED BY <2>1, <2>2
<1> QED BY <1>1 DEF SupervisorInv, TypeOK, BoardInv

\* The same for a step that leaves the board and the scheduler's part alone.
LEMMA PrivateStep ==
  ASSUME SupervisorInv, ProcessTypeOK', NEW r \in Runs, RunInv(r)',
         UNCHANGED boardVars, UNCHANGED handoff,
         \A q \in Runs \ {r} : /\ pc'[q] = pc[q] /\ term'[q] = term[q] /\ child'[q] = child[q]
                               /\ result'[q] = result[q] /\ code'[q] = code[q]
  PROVE  SupervisorInv'
BY BoardStutter, OneRunStep DEF SupervisorInv

\* Every step of a supervisor keeps the types of the processes' variables.
LEMMA RunTypes ==
  ASSUME ProcessTypeOK, NEW r \in Runs, Run(r)
  PROVE  ProcessTypeOK'
<1> USE DEF ProcessTypeOK, Early, Bound, Late, Steps, Dead, Status
<1>1. CASE Boot(r)  BY <1>1 DEF Boot
<1>2. CASE Open(r)  BY <1>2 DEF Open
<1>3. CASE CheckOwner(r)  BY <1>3 DEF CheckOwner, ExitCodes, ExitFailed, ExitCancelled
<1>4. CASE Prepare(r)  BY <1>4 DEF Prepare, ExitCodes, ExitFailed, ExitCancelled
<1>5. CASE Launch(r)  BY <1>5 DEF Launch, ExitCodes, ExitFailed, ExitCancelled
<1>6. CASE BeginRunfile(r)  BY <1>6 DEF BeginRunfile, ExitCodes, ExitFailed, ExitCancelled
<1>7. CASE EndRunfile(r)  BY <1>7 DEF EndRunfile
<1>8. CASE WorkerEnded(r)  BY <1>8 DEF WorkerEnded
<1>9. CASE StopSignalled(r)  BY <1>9 DEF StopSignalled
<1>10. CASE StopTimedOut(r)  BY <1>10 DEF StopTimedOut
<1>11. CASE StopHomeless(r)  BY <1>11 DEF StopHomeless
<1>12. CASE StopClaimLost(r)  BY <1>12 DEF StopClaimLost
<1>13. CASE SuperviseRaises(r)  BY <1>13 DEF SuperviseRaises
<1>14. CASE Cancel(r)  BY <1>14 DEF Cancel
<1>15. CASE Collect(r)  BY SupervisorAssumption, <1>15 DEF Collect
<1>16. CASE Clean(r)  BY <1>16 DEF Clean, ExitCodes, ExitFailed, ExitCancelled
<1>17. CASE Unlink(r)  BY <1>17 DEF Unlink, ExitCodes, ExitFailed, ExitCancelled
<1>18. CASE Apply(r)
  <2>1. PICK lane \in Lanes :
          code' \in {[code EXCEPT ![r] = ExitOk], [code EXCEPT ![r] = ExitFailed],
                    [code EXCEPT ![r] = Plan(lane, result[r], PidTracked).code]}
    BY <1>18 DEF Apply
  <2>2. code' \in [Runs -> ExitCodes]
    BY <2>1, PlanFacts DEF ExitCodes
  <2> QED  BY <1>18, <2>2 DEF Apply
<1>19. CASE Close(r)  BY <1>19 DEF Close
<1> QED
  BY <1>1, <1>2, <1>3, <1>4, <1>5, <1>6, <1>7, <1>8, <1>9, <1>10, <1>11, <1>12, <1>13, <1>14, <1>15, <1>16, <1>17, <1>18, <1>19 DEF Run

\* Every step of a supervisor keeps the invariant.
LEMMA RunStep ==
  ASSUME SupervisorInv, NEW r \in Runs, Run(r)
  PROVE  SupervisorInv'
<1> USE DEF RunInv, HandoffInv, WorkerInv, VerdictInv, SignalInv, GroupUp, Verdict,
            Early, Bound, Late, Steps, Dead, Status, ExitCodes, ExitOk, ExitFailed, ExitCancelled
<1>0. /\ ProcessTypeOK' /\ ProcessTypeOK /\ RunInv(r)
      /\ runs \in [Runs -> [task : Tasks \cup {NoTask}, outcome : Outcomes]]
  BY RunTypes DEF SupervisorInv, TypeOK, BoardTypeOK
<1>1. CASE Boot(r)
  <2>1. RunInv(r)'  BY <1>0, <1>1 DEF Boot, ProcessTypeOK, boardVars
  <2> QED  BY <1>0, <1>1, <2>1, PrivateStep DEF Boot, ProcessTypeOK
<1>2. CASE Open(r)
  <2>1. RunInv(r)'  BY <1>0, <1>2 DEF Open, ProcessTypeOK, boardVars
  <2> QED  BY <1>0, <1>2, <2>1, PrivateStep DEF Open, ProcessTypeOK
<1>3. CASE CheckOwner(r)
  <2>1. RunInv(r)'  BY <1>0, <1>3 DEF CheckOwner, ProcessTypeOK, boardVars
  <2> QED  BY <1>0, <1>3, <2>1, PrivateStep DEF CheckOwner, ProcessTypeOK
<1>4. CASE Prepare(r)
  <2>1. RunInv(r)'  BY <1>0, <1>4 DEF Prepare, ProcessTypeOK, boardVars
  <2> QED  BY <1>0, <1>4, <2>1, PrivateStep DEF Prepare, ProcessTypeOK
<1>5. CASE Launch(r)
  <2>1. RunInv(r)'  BY <1>0, <1>5 DEF Launch, ProcessTypeOK, boardVars
  <2> QED  BY <1>0, <1>5, <2>1, PrivateStep DEF Launch, ProcessTypeOK
<1>6. CASE BeginRunfile(r)
  <2>1. RunInv(r)'  BY <1>0, <1>6 DEF BeginRunfile, ProcessTypeOK, boardVars
  <2> QED  BY <1>0, <1>6, <2>1, PrivateStep DEF BeginRunfile, ProcessTypeOK
<1>7. CASE EndRunfile(r)
  <2>1. RunInv(r)'  BY <1>0, <1>7 DEF EndRunfile, ProcessTypeOK, boardVars
  <2> QED  BY <1>0, <1>7, <2>1, PrivateStep DEF EndRunfile, ProcessTypeOK
<1>8. CASE WorkerEnded(r)
  <2>1. RunInv(r)'  BY <1>0, <1>8 DEF WorkerEnded, ProcessTypeOK, boardVars
  <2> QED  BY <1>0, <1>8, <2>1, PrivateStep DEF WorkerEnded, ProcessTypeOK
<1>9. CASE StopSignalled(r)
  <2>1. RunInv(r)'  BY <1>0, <1>9 DEF StopSignalled, ProcessTypeOK, boardVars
  <2> QED  BY <1>0, <1>9, <2>1, PrivateStep DEF StopSignalled, ProcessTypeOK
<1>10. CASE StopTimedOut(r)
  <2>1. RunInv(r)'  BY <1>0, <1>10 DEF StopTimedOut, ProcessTypeOK, boardVars
  <2> QED  BY <1>0, <1>10, <2>1, PrivateStep DEF StopTimedOut, ProcessTypeOK
<1>11. CASE StopHomeless(r)
  <2>1. RunInv(r)'  BY <1>0, <1>11 DEF StopHomeless, ProcessTypeOK, boardVars
  <2> QED  BY <1>0, <1>11, <2>1, PrivateStep DEF StopHomeless, ProcessTypeOK
<1>12. CASE StopClaimLost(r)
  <2>1. RunInv(r)'  BY <1>0, <1>12 DEF StopClaimLost, ProcessTypeOK, boardVars
  <2> QED  BY <1>0, <1>12, <2>1, PrivateStep DEF StopClaimLost, ProcessTypeOK
<1>13. CASE SuperviseRaises(r)
  <2>1. RunInv(r)'  BY <1>0, <1>13 DEF SuperviseRaises, ProcessTypeOK, boardVars
  <2> QED  BY <1>0, <1>13, <2>1, PrivateStep DEF SuperviseRaises, ProcessTypeOK
<1>14. CASE Cancel(r)
  <2>1. RunInv(r)'  BY <1>0, <1>14 DEF Cancel, ProcessTypeOK, boardVars
  <2> QED  BY <1>0, <1>14, <2>1, PrivateStep DEF Cancel, ProcessTypeOK
<1>15. CASE Collect(r)
  <2>1. RunInv(r)'  BY <1>0, <1>15 DEF Collect, ProcessTypeOK, boardVars
  <2> QED  BY <1>0, <1>15, <2>1, PrivateStep DEF Collect, ProcessTypeOK
<1>16. CASE Clean(r)
  <2>1. RunInv(r)'  BY <1>0, <1>16 DEF Clean, ProcessTypeOK, boardVars
  <2> QED  BY <1>0, <1>16, <2>1, PrivateStep DEF Clean, ProcessTypeOK
<1>17. CASE Unlink(r)
  <2>1. RunInv(r)'  BY <1>0, <1>17 DEF Unlink, ProcessTypeOK, boardVars
  <2> QED  BY <1>0, <1>17, <2>1, PrivateStep DEF Unlink, ProcessTypeOK
<1>18. CASE Apply(r)
  <2> DEFINE plan(lane) == Plan(lane, result[r], PidTracked)
  <2>1. PICK lane \in Lanes :
          \/ /\ plan(lane).to # "none"
             /\ FinishRun(r, plan(lane).to, plan(lane).to)
             /\ code' = [code EXCEPT ![r] = IF Owner(r) THEN ExitOk ELSE plan(lane).code]
          \/ /\ plan(lane).to # "none" /\ "log" \in Faults
             /\ FinishRun(r, plan(lane).to, plan(lane).to)
             /\ code' = [code EXCEPT ![r] = ExitFailed]
          \/ /\ code' \in {[code EXCEPT ![r] = plan(lane).code], [code EXCEPT ![r] = ExitFailed]}
             /\ UNCHANGED boardVars
    BY <1>18 DEF Apply
  <2>2. plan(lane).code # ExitOk /\ plan(lane).to \in Finished \cup {"none"}
        /\ (result[r] = "cancelled" => plan(lane).to = "none")
    BY PlanFacts
  <2>3. /\ pc[r] = "applying" /\ pc' = [pc EXCEPT ![r] = "closing"]
        /\ result' = [result EXCEPT ![r] = "none"] /\ UNCHANGED <<term, child, handoff>>
    BY <1>18 DEF Apply
  <2>4. BoardInv  BY DEF SupervisorInv
  <2>5. CASE /\ plan(lane).to # "none"
             /\ FinishRun(r, plan(lane).to, plan(lane).to)
             /\ \/ code' = [code EXCEPT ![r] = IF Owner(r) THEN ExitOk ELSE plan(lane).code]
                \/ "log" \in Faults /\ code' = [code EXCEPT ![r] = ExitFailed]
    <3>1. /\ BoardInv' /\ lastRun' = lastRun
          /\ runs'[r].outcome = IF Owner(r) THEN plan(lane).to ELSE runs[r].outcome
          /\ \A q \in Runs : q # r => runs'[q] = runs[q]
      <4>1. plan(lane).to \in Columns \ {"running"} /\ plan(lane).to \in Outcomes \ {"none", "open"}
        BY <2>2, <2>5 DEF Columns, Outcomes, Finished
      <4> QED  BY <2>4, <2>5, <4>1, FinishRunInv
    <3>2. ~Verdict(r) /\ result[r] # "cancelled"
      BY <1>0, <2>2, <2>3, <2>5
    <3>3. RunInv(r)'
      BY <1>0, <2>2, <2>3, <2>5, <3>1, <3>2 DEF ProcessTypeOK
    <3> QED  BY <1>0, <2>3, <2>5, <3>1, <3>3, OneRunStep DEF ProcessTypeOK
  <2>6. CASE /\ code' \in {[code EXCEPT ![r] = plan(lane).code], [code EXCEPT ![r] = ExitFailed]}
             /\ UNCHANGED boardVars
    <3>1. RunInv(r)'
      BY <1>0, <2>2, <2>3, <2>6 DEF ProcessTypeOK, boardVars
    <3> QED  BY <1>0, <2>3, <2>6, <3>1, PrivateStep DEF ProcessTypeOK
  <2> QED  BY <2>1, <2>5, <2>6
<1>19. CASE Close(r)
  <2>1. RunInv(r)'  BY <1>0, <1>19 DEF Close, ProcessTypeOK, boardVars
  <2> QED  BY <1>0, <1>19, <2>1, PrivateStep DEF Close, ProcessTypeOK
<1> QED
  BY <1>1, <1>2, <1>3, <1>4, <1>5, <1>6, <1>7, <1>8, <1>9, <1>10, <1>11, <1>12, <1>13, <1>14, <1>15, <1>16, <1>17, <1>18, <1>19 DEF Run

\* A card lost by the run that holds it, without a verdict, hurts no invariant.
LEMMA CardLost ==
  ASSUME SupervisorInv, NEW r \in Runs, UNCHANGED supVars,
         ProcessTypeOK', BoardInv', lastRun' = lastRun,
         \A q \in Runs \ {r} : runs'[q] = runs[q] /\ handoff'[q] = handoff[q],
         HandoffInv(r)', Verdict(r)' => Verdict(r), Verdict(r) => Verdict(r)'
  PROVE  SupervisorInv'
<1>1. RunInv(r)'
  BY DEF SupervisorInv, RunInv, WorkerInv, VerdictInv, SignalInv, GroupUp
<1> QED  BY <1>1, OneRunStep

\* Workers, schedulers and stray kills keep the invariant.
LEMMA SchedulingStep ==
  ASSUME SupervisorInv, NEW r \in Runs, WorkerExits(r) \/ Scheduling(r) \/ Kill(r)
  PROVE  SupervisorInv'
<1> USE DEF RunInv, HandoffInv, WorkerInv, VerdictInv, SignalInv, GroupUp, Verdict,
            Early, Bound, Late, Steps, Dead
<1>0. ProcessTypeOK /\ RunInv(r) /\ BoardInv
  BY DEF SupervisorInv, TypeOK
<1>1. CASE WorkerExits(r)
  <2>1. ProcessTypeOK'  BY <1>0, <1>1 DEF WorkerExits, ProcessTypeOK
  <2>2. RunInv(r)'  BY <1>0, <1>1 DEF WorkerExits, ProcessTypeOK, boardVars
  <2> QED  BY <1>0, <1>1, <2>1, <2>2, PrivateStep DEF WorkerExits, ProcessTypeOK
<1>2. CASE Spawn(r)
  <2>1. ProcessTypeOK'  BY <1>0, <1>2 DEF Spawn, ProcessTypeOK
  <2>2. RunInv(r)'  BY <1>0, <1>2 DEF Spawn, ProcessTypeOK, boardVars
  <2> QED  BY <1>0, <1>2, <2>1, <2>2, BoardStutter, OneRunStep DEF Spawn, ProcessTypeOK
<1>3. CASE SpawnFails(r)
  <2>1. ProcessTypeOK'  BY <1>0, <1>3 DEF SpawnFails, ProcessTypeOK
  <2>2. /\ BoardInv' /\ lastRun' = lastRun
        /\ runs'[r].outcome \in {runs[r].outcome, "unspawned"}
        /\ runs'[r].outcome # runs[r].outcome => runs[r].outcome = "open"
        /\ \A q \in Runs : q # r => runs'[q] = runs[q]
    <3>1. CASE FinishRun(r, "blocked", "unspawned")
      BY <1>0, <3>1, FinishRunInv DEF Columns, Outcomes, Finished, BoardInv, OpenRunHoldsCard
    <3>2. CASE UNCHANGED boardVars
      BY <1>0, <3>2, BoardStutter
    <3> QED  BY <1>3, <3>1, <3>2 DEF SpawnFails
  <2>3. Verdict(r)' <=> Verdict(r)
    BY <2>2 DEF Finished
  <2> QED  BY <1>0, <1>3, <2>1, <2>2, <2>3, CardLost DEF SpawnFails, ProcessTypeOK
<1>4. CASE RecordPid(r)
  <2>1. ProcessTypeOK'  BY <1>0, <1>4 DEF RecordPid, ProcessTypeOK
  <2>2. BoardInv' /\ runs' = runs /\ lastRun' = lastRun
    <3>1. runs[r].task \in Tasks
      BY <1>0, <1>4 DEF RecordPid, BoardInv, BoardTypeOK, RunsNumbered, Runs
    <3> QED  BY <1>0, <1>4, <3>1, RecordInv, BoardStutter DEF RecordPid
  <2> QED  BY <1>0, <1>4, <2>1, <2>2, CardLost DEF RecordPid, ProcessTypeOK
<1>5. CASE SchedulerLost(r)
  <2>1. ProcessTypeOK'  BY <1>0, <1>5 DEF SchedulerLost, ProcessTypeOK
  <2> QED  BY <1>0, <1>5, <2>1, BoardStutter, CardLost DEF SchedulerLost, ProcessTypeOK
<1>6. CASE Sweep(r)
  <2>1. ProcessTypeOK'  BY <1>0, <1>6 DEF Sweep, ProcessTypeOK
  <2>2. RunInv(r)'  BY <1>0, <1>6 DEF Sweep, ProcessTypeOK, boardVars
  <2> QED  BY <1>0, <1>6, <2>1, <2>2, PrivateStep DEF Sweep, ProcessTypeOK
<1>7. CASE Kill(r)
  <2>1. ProcessTypeOK'  BY <1>0, <1>7 DEF Kill, ProcessTypeOK
  <2>2. RunInv(r)'  BY <1>0, <1>7 DEF Kill, Alive, ProcessTypeOK, boardVars
  <2> QED  BY <1>0, <1>7, <2>1, <2>2, PrivateStep DEF Kill, ProcessTypeOK
<1> QED  BY <1>1, <1>2, <1>3, <1>4, <1>5, <1>6, <1>7 DEF Scheduling

\* Hermes, whatever it does to the card and to the recorded process, keeps it.
LEMMA HermesStep ==
  ASSUME SupervisorInv, NEW t \in Tasks, Hermes(t)
  PROVE  SupervisorInv'
<1> USE DEF RunInv, HandoffInv, WorkerInv, VerdictInv, SignalInv, GroupUp, Verdict,
            Early, Bound, Late, Steps, Dead
<1>0. ProcessTypeOK /\ BoardInv /\ BoardTypeOK /\ \A r \in Runs : RunInv(r)
  BY DEF SupervisorInv, TypeOK
<1>1. CASE ReclaimBegins(t)
  <2>1. PICK p \in Runs \cup {NoRun} : p = card[t].pid /\ card[t].run \in Runs \cup {NoRun}
    BY <1>0 DEF BoardTypeOK
  <2>2. CASE p # NoRun /\ Alive(p)
    <3>0. p \in Runs  BY <2>1, <2>2
    <3>1. ProcessTypeOK'
      BY <1>0, <1>1, <2>1, <2>2, <3>0 DEF ReclaimBegins, Signal, Phase, ProcessTypeOK
    <3>2. RunInv(p)'
      BY <1>0, <1>1, <2>1, <2>2, <3>0 DEF ReclaimBegins, Signal, Phase, Alive, ProcessTypeOK, boardVars
    <3> QED
      BY <1>0, <1>1, <2>1, <2>2, <3>0, <3>1, <3>2, PrivateStep DEF ReclaimBegins, Signal, ProcessTypeOK
  <2>3. CASE ~(p # NoRun /\ Alive(p))
    <3>1. ProcessTypeOK'
      BY <1>0, <1>1, <2>1, <2>3 DEF ReclaimBegins, ProcessTypeOK
    <3>2. UNCHANGED <<boardVars, pc, term, child, result, code, handoff>>
      BY <1>1, <2>1, <2>3 DEF ReclaimBegins
    <3> QED
      BY <1>0, <3>1, <3>2, BoardStutter DEF SupervisorInv, TypeOK, BoardInv
  <2> QED  BY <2>2, <2>3
<1>2. CASE ReclaimKills(t)
  <2>0. PICK p \in Runs : p = reclaim[t].pid  BY <1>0, <1>2 DEF ReclaimKills, ProcessTypeOK
  <2>1. ProcessTypeOK'  BY <1>0, <1>2, <2>0 DEF ReclaimKills, ProcessTypeOK
  <2>2. RunInv(p)'  BY <1>0, <1>2, <2>0 DEF ReclaimKills, Alive, ProcessTypeOK, boardVars
  <2> QED  BY <1>0, <1>2, <2>0, <2>1, <2>2, PrivateStep DEF ReclaimKills, ProcessTypeOK
<1>3. CASE ReclaimEnds(t)
  <2>0. PICK r \in Runs : r = reclaim[t].run  BY <1>0, <1>3 DEF ReclaimEnds, ProcessTypeOK
  <2>1. ProcessTypeOK'  BY <1>0, <1>3 DEF ReclaimEnds, NoReclaim, ProcessTypeOK
  <2>2. FinishRun(r, "ready", "reclaimed")  BY <1>3, <2>0 DEF ReclaimEnds
  <2>3. /\ BoardInv' /\ lastRun' = lastRun
        /\ runs'[r].outcome = IF Owner(r) THEN "reclaimed" ELSE runs[r].outcome
        /\ \A q \in Runs : q # r => runs'[q] = runs[q]
    BY <1>0, <2>0, <2>2, FinishRunInv DEF Columns, Outcomes, Finished
  <2>4. Owner(r) => runs[r].outcome = "open"
    BY <1>0, <2>0 DEF BoardInv, OpenRunHoldsCard
  <2>5. UNCHANGED <<supVars, handoff>>  BY <1>3 DEF ReclaimEnds
  <2>6. Verdict(r)' <=> Verdict(r)  BY <2>3, <2>4 DEF Finished
  <2> QED  BY <1>0, <2>0, <2>1, <2>3, <2>5, <2>6, CardLost
<1>4. ASSUME NEW column \in {"ready", "blocked"}, NEW outcome \in {"reclaimed", "crashed"},
             card[t].status = "running", MoveCard(card[t].run, column, outcome),
             UNCHANGED <<supVars, handoff, reclaim>>
      PROVE  SupervisorInv'
  <2>0. PICK r \in Runs : r = card[t].run /\ Owner(r)  BY <1>0, <1>4, HolderOwns
  <2>1. ProcessTypeOK'  BY <1>0, <1>4 DEF ProcessTypeOK
  <2>2. MoveCard(r, column, outcome)  BY <1>4, <2>0
  <2>3. /\ BoardInv' /\ lastRun' = lastRun /\ runs'[r].outcome = outcome
        /\ \A q \in Runs : q # r => runs'[q] = runs[q]
    BY <1>0, <2>0, <2>2, MoveCardInv DEF Columns, Outcomes, Finished
  <2>4. runs[r].outcome = "open"
    BY <1>0, <2>0 DEF BoardInv, OpenRunHoldsCard
  <2>5. Verdict(r)' <=> Verdict(r)  BY <2>3, <2>4 DEF Finished
  <2> QED  BY <1>0, <1>4, <2>0, <2>1, <2>3, <2>5, CardLost
<1>5. CASE ReleaseQuietly(t)  BY <1>4, <1>5 DEF ReleaseQuietly
<1>6. CASE BookCrash(t)  BY <1>4, <1>6 DEF BookCrash
<1>7. CASE RequeueCard(t)
  <2>1. BoardInv' /\ runs' = runs /\ lastRun' = lastRun
    BY <1>0, <1>7, RequeueInv DEF RequeueCard
  <2>2. UNCHANGED <<supVars, handoff, reclaim>>  BY <1>7 DEF RequeueCard
  <2> QED  BY <1>0, <2>1, <2>2 DEF SupervisorInv, TypeOK, BoardInv, ProcessTypeOK
<1> QED  BY <1>1, <1>2, <1>3, <1>5, <1>6, <1>7 DEF Hermes

\* A claim opens a run no process has touched.
LEMMA ClaimStep ==
  ASSUME SupervisorInv, NEW t \in Tasks, Claim(t)
  PROVE  SupervisorInv'
<1> USE DEF RunInv, HandoffInv, WorkerInv, VerdictInv, SignalInv, GroupUp, Verdict
<1> DEFINE n == lastRun + 1
<1>0. ProcessTypeOK /\ BoardInv /\ BoardTypeOK /\ \A r \in Runs : RunInv(r)
  BY DEF SupervisorInv, TypeOK
<1>1. /\ BoardInv' /\ n \in Runs /\ lastRun' = n /\ runs'[n].outcome = "open"
      /\ \A r \in Runs : r # n => runs'[r] = runs[r]
  BY <1>0, ClaimInv DEF Claim
<1>2. UNCHANGED supVars /\ handoff' = [handoff EXCEPT ![n] = "claimed"] /\ UNCHANGED reclaim
  BY DEF Claim
<1>3. lastRun \in Nat  BY <1>0 DEF BoardTypeOK
<1>4. ProcessTypeOK'  BY <1>0, <1>2 DEF ProcessTypeOK
<1>5. ASSUME NEW r \in Runs PROVE RunInv(r)'
  <2>1. CASE r = n
    <3>1. pc[r] = "unborn"  BY <1>0, <1>1, <1>3, <2>1
    <3>2. HandoffInv(r)'  BY <1>0, <1>1, <1>2, <1>3, <2>1, <3>1 DEF ProcessTypeOK
    <3> QED  BY <1>0, <1>1, <1>2, <2>1, <3>1, <3>2 DEF Finished, Early, Bound
  <2>2. CASE r # n
    BY <1>0, <1>1, <1>2, <1>3, <2>2 DEF ProcessTypeOK, Runs
  <2> QED  BY <2>1, <2>2
<1> QED  BY <1>1, <1>4, <1>5 DEF SupervisorInv, TypeOK, BoardInv

\* The initial states satisfy the invariant ...
LEMMA InitInv == ASSUME Init PROVE SupervisorInv
<1>1. BoardInv  BY BoardInitInv DEF Init
<1>2. ProcessTypeOK
  BY DEF Init, SupervisorInit, ProcessTypeOK, NoReclaim, ExitCodes, NoRun
<1>3. ASSUME NEW r \in Runs PROVE RunInv(r)
  BY <1>3 DEF Init, SupervisorInit, BoardInit, RunInv, HandoffInv, WorkerInv, VerdictInv, SignalInv,
     GroupUp, Verdict, Finished, Early, Bound
<1> QED  BY <1>1, <1>2, <1>3 DEF SupervisorInv, TypeOK, BoardInv

\* ... and every step preserves it.
LEMMA NextInv == ASSUME SupervisorInv, [Next]_vars PROVE SupervisorInv'
<1>1. CASE UNCHANGED vars
  BY <1>1, BoardStutter DEF vars, boardVars, SupervisorInv, TypeOK, ProcessTypeOK, BoardInv,
     RunInv, HandoffInv, WorkerInv, VerdictInv, SignalInv, GroupUp, Verdict
<1>2. ASSUME NEW r \in Runs, Run(r) \/ WorkerExits(r) \/ Scheduling(r) \/ Kill(r)
      PROVE  SupervisorInv'
  BY <1>2, RunStep, SchedulingStep
<1>3. ASSUME NEW t \in Tasks, Claim(t) \/ Hermes(t) PROVE SupervisorInv'
  BY <1>3, ClaimStep, HermesStep
<1> QED  BY <1>1, <1>2, <1>3 DEF Next

\* The inductive invariant holds in every reachable state of Supervisor.
THEOREM SupervisorInvariant == Spec => []SupervisorInv
BY InitInv, NextInv, PTL DEF Spec

-----------------------------------------------------------------------------
\* Type correctness, for any number of runs and any set of failures.
THEOREM TypeCorrect == Spec => []TypeOK
<1>1. SupervisorInv => TypeOK  BY DEF SupervisorInv
<1> QED  BY <1>1, SupervisorInvariant, PTL

\* Claims, fenced writes, reclaims and crash bookings keep the board
\* consistent: a run is open exactly while it holds its card.
THEOREM BoardConsistent == Spec => []OpenRunHoldsCard
<1>1. SupervisorInv => OpenRunHoldsCard  BY DEF SupervisorInv, BoardInv
<1> QED  BY <1>1, SupervisorInvariant, PTL

\* No card is finished by a run whose worker could still change the workspace
\* (supervisor.py: the finally block of _execute precedes lifecycle.apply).
THEOREM VerdictAfterWorker == Spec => []WorkerGoneBeforeVerdict
<1>1. SupervisorInv => WorkerGoneBeforeVerdict
  BY DEF SupervisorInv, RunInv, VerdictInv, WorkerGoneBeforeVerdict
<1> QED  BY <1>1, SupervisorInvariant, PTL

\* The exit code Hermes reads is 0 only when the run moved its card, and then
\* it is 0 unless the task log failed (lifecycle.py: _write).
THEOREM ExitCodeHonest == Spec => []ExitCodeMatchesVerdict
<1>1. SupervisorInv => ExitCodeMatchesVerdict
  BY DEF SupervisorInv, RunInv, VerdictInv, ExitCodeMatchesVerdict
<1> QED  BY <1>1, SupervisorInvariant, PTL

\* A SIGTERM that comes before the worker is stopped or has ended keeps the
\* run from writing a transition.
THEOREM SignalHonoured == Spec => []SignalledRunLeavesCard
<1>1. SupervisorInv => SignalledRunLeavesCard
  BY DEF SupervisorInv, RunInv, SignalInv, SignalledRunLeavesCard
<1> QED  BY <1>1, SupervisorInvariant, PTL

-----------------------------------------------------------------------------
(***************************************************************************)
(* Claim-only mode                                                         *)
(***************************************************************************)
\* A run that has lost its card has lost it for good: only a claim opens a run,
\* and it opens a new one.
LEMMA LostForGood ==
  ASSUME SupervisorInv, [Next]_vars, NEW r \in Runs, r <= lastRun, ~Owner(r)
  PROVE  ~Owner(r)'
<1>0. BoardInv /\ BoardTypeOK /\ runs[r].outcome # "open" /\ lastRun \in Nat
  BY DEF SupervisorInv, TypeOK, BoardInv, BoardTypeOK, OpenRunHoldsCard
<1>1. SUFFICES runs'[r].outcome # "open"
  BY NextInv DEF SupervisorInv, BoardInv, OpenRunHoldsCard
<1>2. ASSUME NEW q \in Runs, NEW column \in Columns \ {"running"}, NEW outcome \in Outcomes \ {"none", "open"},
             FinishRun(q, column, outcome)
      PROVE  runs'[r].outcome # "open"
  BY <1>0, <1>2, FinishRunInv
<1>3. ASSUME NEW t \in Tasks, card[t].status = "running",
             NEW column \in {"ready", "blocked"}, NEW outcome \in {"reclaimed", "crashed"},
             MoveCard(card[t].run, column, outcome)
      PROVE  runs'[r].outcome # "open"
  <2>1. PICK q \in Runs : q = card[t].run /\ Owner(q)
    BY <1>0, <1>3, HolderOwns
  <2> QED BY <1>0, <1>3, <2>1, MoveCardInv DEF Columns, Outcomes, Finished
<1>4. ASSUME NEW q \in Runs, Run(q), runs' # runs PROVE runs'[r].outcome # "open"
  <2>1. Apply(q)
    BY <1>4 DEF Run, Boot, Open, CheckOwner, Prepare, Launch, BeginRunfile, EndRunfile, WorkerEnded,
       StopSignalled, StopTimedOut, StopHomeless, StopClaimLost, SuperviseRaises, Cancel, Collect,
       Clean, Unlink, Close, boardVars
  <2>2. PICK lane \in Lanes : FinishRun(q, Plan(lane, result[q], PidTracked).to, Plan(lane, result[q], PidTracked).to)
                              /\ Plan(lane, result[q], PidTracked).to # "none"
    BY <1>4, <2>1 DEF Apply, boardVars
  <2>3. Plan(lane, result[q], PidTracked).to \in (Columns \ {"running"}) \cap (Outcomes \ {"none", "open"})
    BY <2>2, PlanFacts DEF Columns, Outcomes, Finished
  <2> QED BY <1>2, <2>2, <2>3
<1>5. ASSUME NEW q \in Runs, WorkerExits(q) \/ Scheduling(q) \/ Kill(q), runs' # runs
      PROVE  runs'[r].outcome # "open"
  <2>1. FinishRun(q, "blocked", "unspawned")
    BY <1>5 DEF WorkerExits, Scheduling, Kill, Spawn, SpawnFails, RecordPid, SchedulerLost, Sweep,
       RecordWorkerPid, boardVars
  <2> QED BY <1>2, <2>1 DEF Columns, Outcomes, Finished
<1>6. ASSUME NEW t \in Tasks, Hermes(t), runs' # runs PROVE runs'[r].outcome # "open"
  <2>1. CASE ReclaimEnds(t)
    <3>1. PICK q \in Runs : q = reclaim[t].run
      BY <2>1 DEF ReclaimEnds, SupervisorInv, TypeOK, ProcessTypeOK
    <3> QED BY <1>2, <2>1, <3>1 DEF ReclaimEnds, Columns, Outcomes, Finished
  <2>2. CASE ReleaseQuietly(t) \/ BookCrash(t)
    BY <1>3, <2>2 DEF ReleaseQuietly, BookCrash
  <2> QED BY <1>6, <2>1, <2>2 DEF Hermes, ReclaimBegins, ReclaimKills, RequeueCard, Requeue, boardVars
<1>7. ASSUME NEW t \in Tasks, Claim(t) PROVE runs'[r].outcome # "open"
  BY <1>0, <1>7, ClaimInv DEF Claim
<1>8. CASE UNCHANGED vars
  BY <1>0, <1>8 DEF vars
<1> QED BY <1>0, <1>4, <1>5, <1>6, <1>7, <1>8 DEF Next

\* No pid on any card, no pid to signal, no signal.
LEMMA UnsignalledStep ==
  ASSUME SupervisorInv, Unsignalled, ~PidTracked, [Next]_vars
  PROVE  Unsignalled'
<1> USE DEF Unsignalled
<1>0. BoardTypeOK /\ ProcessTypeOK /\ BoardInv
  BY DEF SupervisorInv, TypeOK
<1>1. ASSUME NEW q, NEW column, NEW outcome, MoveCard(q, column, outcome)
      PROVE  \A t \in Tasks : card'[t].pid = NoRun
  BY <1>0, <1>1 DEF MoveCard, BoardTypeOK
<1>2. ASSUME NEW q, NEW column, NEW outcome, FinishRun(q, column, outcome)
      PROVE  \A t \in Tasks : card'[t].pid = NoRun
  BY <1>1, <1>2 DEF FinishRun, boardVars
<1>3. ASSUME NEW q \in Runs, Run(q) PROVE Unsignalled'
  <2>1. UNCHANGED <<reclaim, term>>
    BY <1>3 DEF Run, Boot, Open, CheckOwner, Prepare, Launch, BeginRunfile, EndRunfile, WorkerEnded,
       StopSignalled, StopTimedOut, StopHomeless, StopClaimLost, SuperviseRaises, Cancel, Collect,
       Clean, Unlink, Apply, Close
  <2>2. \A t \in Tasks : card'[t].pid = NoRun
    <3>1. CASE UNCHANGED card
      BY <3>1
    <3>2. CASE Apply(q)
      BY <1>2, <3>2 DEF Apply, boardVars
    <3> QED
      BY <1>3, <3>1, <3>2 DEF Run, Boot, Open, CheckOwner, Prepare, Launch, BeginRunfile, EndRunfile, WorkerEnded,
         StopSignalled, StopTimedOut, StopHomeless, StopClaimLost, SuperviseRaises, Cancel, Collect,
         Clean, Unlink, Close, boardVars
  <2> QED BY <2>1, <2>2
<1>4. ASSUME NEW q \in Runs, WorkerExits(q) \/ Scheduling(q) \/ Kill(q) PROVE Unsignalled'
  <2>1. UNCHANGED <<reclaim, term>>
    BY <1>4 DEF WorkerExits, Scheduling, Kill, Spawn, SpawnFails, RecordPid, SchedulerLost, Sweep
  <2>2. card' = card \/ FinishRun(q, "blocked", "unspawned")
    BY <1>4 DEF WorkerExits, Scheduling, Kill, Spawn, SpawnFails, RecordPid, SchedulerLost, Sweep,
       RecordWorkerPid, boardVars
  <2> QED BY <1>2, <2>1, <2>2
<1>5. ASSUME NEW t \in Tasks, Hermes(t) PROVE Unsignalled'
  <2>1. CASE ReclaimBegins(t)
    BY <1>0, <2>1 DEF ReclaimBegins, ProcessTypeOK, boardVars
  <2>2. CASE ReclaimEnds(t)
    <3>1. \A u \in Tasks : card'[u].pid = NoRun
      BY <1>2, <2>2 DEF ReclaimEnds
    <3> QED BY <1>0, <2>2, <3>1 DEF ReclaimEnds, NoReclaim, ProcessTypeOK
  <2>3. CASE ReleaseQuietly(t) \/ BookCrash(t)
    <3>1. PICK q, column, outcome : MoveCard(q, column, outcome)
      BY <2>3 DEF ReleaseQuietly, BookCrash
    <3> QED BY <1>1, <2>3, <3>1 DEF ReleaseQuietly, BookCrash
  <2>4. CASE RequeueCard(t)
    BY <1>0, <2>4 DEF RequeueCard, Requeue, BoardTypeOK
  <2> QED BY <1>5, <2>1, <2>2, <2>3, <2>4 DEF Hermes, ReclaimKills
<1>6. ASSUME NEW t \in Tasks, Claim(t) PROVE Unsignalled'
  BY <1>0, <1>6 DEF Claim, ClaimTask, BoardTypeOK
<1>7. CASE UNCHANGED vars
  BY <1>7 DEF vars
<1> QED BY <1>3, <1>4, <1>5, <1>6, <1>7 DEF Next

\* In claim-only mode everything but "cancelled" is written to the board.
LEMMA PlanWrites ==
  ASSUME ~PidTracked, NEW lane \in Lanes, NEW status \in Status \ {"cancelled"}
  PROVE  Plan(lane, status, PidTracked).to \in Finished
BY DEF Plan, Write, NoWrite, Finished, Status

\* What a run has come to stays as long as it stands still: its card does not
\* come back to it.
LEMMA ClosingStays ==
  ASSUME SupervisorInv, [Next]_vars, NEW r \in Runs, ClosingInv(r), result'[r] = result[r],
         pc'[r] = pc[r] \/ pc'[r] \notin {"cleaning", "unlinking", "applying", "closing", "exited"}
  PROVE  ClosingInv(r)'
<1>1. ASSUME result[r] = "cancelled" \/ pc[r] \in {"closing", "exited"}
      PROVE  ~Owner(r)'
  <2>1. pc[r] # "unborn"
    BY <1>1 DEF SupervisorInv, RunInv, SignalInv
  <2>2. r <= lastRun
    BY <2>1, BoardAssumption DEF SupervisorInv, TypeOK, BoardTypeOK, RunInv, HandoffInv, Runs
  <2> QED BY <1>1, <2>2, LostForGood DEF ClosingInv
<1> QED BY <1>1 DEF ClosingInv

\* So is everything that happens around a supervisor ...
LEMMA ClosingAround ==
  ASSUME SupervisorInv, Unsignalled, [Next]_vars, NEW r \in Runs, ClosingInv(r), ~Run(r)
  PROVE  ClosingInv(r)'
<1>0. ProcessTypeOK
  BY DEF SupervisorInv, TypeOK
<1>1. result'[r] = result[r]
      /\ (pc'[r] = pc[r] \/ pc'[r] \in {"boot", "killed"})
  <2>1. ASSUME NEW q \in Runs, Run(q)
        PROVE  pc'[r] = pc[r] /\ result'[r] = result[r]
    <3>1. q # r
      BY <2>1
    <3> QED
      BY <1>0, <2>1, <3>1 DEF ProcessTypeOK, Run, Boot, Open, CheckOwner, Prepare, Launch, BeginRunfile, EndRunfile,
         WorkerEnded, StopSignalled, StopTimedOut, StopHomeless, StopClaimLost, SuperviseRaises, Cancel,
         Collect, Clean, Unlink, Apply, Close
  <2>2. ASSUME NEW q \in Runs, WorkerExits(q) \/ Scheduling(q) \/ Kill(q)
        PROVE  result'[r] = result[r] /\ pc'[r] \in {pc[r], "boot", "killed"}
    BY <1>0, <2>2 DEF ProcessTypeOK, WorkerExits, Scheduling, Kill, Spawn, SpawnFails, RecordPid, SchedulerLost, Sweep
  <2>3. ASSUME NEW t \in Tasks, Hermes(t)
        PROVE  result'[r] = result[r] /\ pc'[r] = pc[r]
    BY <1>0, <2>3 DEF Unsignalled, Hermes, ReclaimBegins, ReclaimKills, ReclaimEnds, ReleaseQuietly, BookCrash, RequeueCard
  <2>4. ASSUME NEW t \in Tasks, Claim(t)
        PROVE  result'[r] = result[r] /\ pc'[r] = pc[r]
    BY <2>4 DEF Claim
  <2>5. CASE UNCHANGED vars
    BY <2>5 DEF vars
  <2> QED BY <2>1, <2>2, <2>3, <2>4, <2>5 DEF Next
<1> QED BY <1>1, ClosingStays

\* ... and its own steps end with the card given up.
LEMMA ClosingOwn ==
  ASSUME SupervisorInv, SupervisorInv', [Next]_vars, Unsignalled, ~PidTracked,
         {"raise", "runsdir", "write", "log"} \cap Faults = {},
         NEW r \in Runs, ClosingInv(r), Run(r)
  PROVE  ClosingInv(r)'
<1>0. /\ ProcessTypeOK /\ term[r] = "no" /\ BoardInv
      /\ "raise" \notin Faults /\ "runsdir" \notin Faults /\ "write" \notin Faults /\ "log" \notin Faults
  BY DEF SupervisorInv, TypeOK, Unsignalled
<1>1. ASSUME UNCHANGED boardVars PROVE Owner(r)' <=> Owner(r)
  BY <1>1 DEF Owner, StillOwner, boardVars
<1>2. CASE Apply(r)
  <2>1. /\ pc[r] = "applying" /\ pc' = [pc EXCEPT ![r] = "closing"] /\ result' = [result EXCEPT ![r] = "none"]
        /\ result[r] \in Status
    BY <1>0, <1>2 DEF Apply, ClosingInv, ProcessTypeOK
  <2>2. PICK lane \in Lanes :
          LET plan == Plan(lane, result[r], PidTracked)
          IN (plan.to # "none" /\ FinishRun(r, plan.to, plan.to)) \/ (plan.to = "none" /\ UNCHANGED boardVars)
    BY <1>0, <1>2 DEF Apply
  <2> DEFINE to == Plan(lane, result[r], PidTracked).to
  <2>3. CASE result[r] = "cancelled"
    <3>1. to = "none"
      BY <2>3, PlanFacts
    <3> QED BY <1>0, <1>1, <2>1, <2>2, <2>3, <3>1 DEF ClosingInv, ProcessTypeOK
  <2>4. CASE result[r] # "cancelled"
    <3>1. to \in Finished
      BY <2>1, <2>4, PlanWrites
    <3>2. FinishRun(r, to, to) /\ to \in Columns \ {"running"} /\ to \in Outcomes \ {"none", "open"}
      BY <2>2, <3>1 DEF Finished, Columns, Outcomes
    <3>3. runs'[r].outcome = (IF Owner(r) THEN to ELSE runs[r].outcome)
      BY <1>0, <3>2, FinishRunInv
    <3>4. Owner(r) <=> runs[r].outcome = "open"
      BY <1>0 DEF BoardInv, OpenRunHoldsCard
    <3>5. runs'[r].outcome # "open"
      BY <3>1, <3>3, <3>4 DEF Finished
    <3>6. ~Owner(r)'
      BY <3>5 DEF SupervisorInv, BoardInv, OpenRunHoldsCard
    <3> QED BY <1>0, <2>1, <3>6 DEF ClosingInv, ProcessTypeOK
  <2> QED BY <2>3, <2>4
<1>3. CASE ~Apply(r)
  <2>1. UNCHANGED boardVars
    BY <1>3 DEF Run, Boot, Open, CheckOwner, Prepare, Launch, BeginRunfile, EndRunfile, WorkerEnded,
       StopSignalled, StopTimedOut, StopHomeless, StopClaimLost, SuperviseRaises, Cancel, Collect,
       Clean, Unlink, Close
  <2>2. Owner(r)' <=> Owner(r)
    BY <1>1, <2>1
  <2> USE <1>0, <2>2 DEF ClosingInv, ProcessTypeOK
  <2>3. CASE Boot(r) \/ Open(r) \/ Launch(r) \/ BeginRunfile(r) \/ EndRunfile(r) \/ WorkerEnded(r) \/ Cancel(r)
    BY <2>3 DEF Boot, Open, Launch, BeginRunfile, EndRunfile, WorkerEnded, Cancel
  <2>4. CASE CheckOwner(r) \/ Prepare(r)
    <3>1. result[r] = "none"
      BY <2>4 DEF CheckOwner, Prepare, SupervisorInv, RunInv, SignalInv, Early
    <3> QED BY <2>4, <3>1 DEF CheckOwner, Prepare
  <2>5. CASE StopSignalled(r) \/ StopTimedOut(r) \/ StopHomeless(r) \/ StopClaimLost(r)
    BY <2>5 DEF StopSignalled, StopTimedOut, StopHomeless, StopClaimLost
  <2>6. CASE SuperviseRaises(r)
    BY <2>6 DEF SuperviseRaises
  <2>7. CASE Collect(r)
    BY <2>7, SupervisorAssumption DEF Collect, Status
  <2>8. CASE Clean(r) \/ Unlink(r) \/ Close(r)
    BY <2>8 DEF Clean, Unlink, Close
  <2> QED BY <1>3, <2>3, <2>4, <2>5, <2>6, <2>7, <2>8 DEF Run
<1> QED BY <1>2, <1>3

\* Hermes cannot book the crash of a supervisor whose pid it was never told.  So
\* in claim-only mode a supervisor that ends by itself must have closed its run,
\* and it has, for any cards and runs: whatever becomes of the worker, the
\* workspace or the claim, unless an exception or a failing write keeps it from
\* saying so (lifecycle.py: apply without pid tracking).
THEOREM ClaimOnlyRunsClose ==
  ASSUME {"raise", "runsdir", "write", "log"} \cap Faults = {}
  PROVE  Spec => []ClaimOnlyRunIsClosed
<1>1. CASE PidTracked
  <2>1. ClaimOnlyRunIsClosed
    BY <1>1 DEF ClaimOnlyRunIsClosed
  <2> QED BY <2>1, PTL
<1>2. CASE ~PidTracked
  <2>1. Init => ClaimOnlyInv
    <3> SUFFICES ASSUME Init PROVE ClaimOnlyInv
      OBVIOUS
    <3>1. Unsignalled
      BY DEF Init, BoardInit, SupervisorInit, NoReclaim, Unsignalled
    <3>2. \A r \in Runs : ClosingInv(r)
      BY DEF Init, SupervisorInit, ClosingInv
    <3> QED BY <3>1, <3>2, InitInv DEF ClaimOnlyInv
  <2>2. ClaimOnlyInv /\ [Next]_vars => ClaimOnlyInv'
    <3> SUFFICES ASSUME ClaimOnlyInv, [Next]_vars PROVE ClaimOnlyInv'
      OBVIOUS
    <3>1. SupervisorInv /\ SupervisorInv' /\ Unsignalled /\ Unsignalled' /\ \A r \in Runs : ClosingInv(r)
      BY <1>2, NextInv, UnsignalledStep DEF ClaimOnlyInv
    <3>2. \A r \in Runs : ClosingInv(r)'
      BY <1>2, <3>1, ClosingAround, ClosingOwn
    <3> QED BY <3>1, <3>2 DEF ClaimOnlyInv
  <2>3. ClaimOnlyInv => ClaimOnlyRunIsClosed
    BY DEF ClaimOnlyInv, ClosingInv, ClaimOnlyRunIsClosed
  <2> QED BY <2>1, <2>2, <2>3, PTL DEF Spec
<1> QED BY <1>1, <1>2
=============================================================================
