------------------------------ MODULE AcpProofs ------------------------------
(***************************************************************************)
(* Proofs about AcpSession: AcpInv is inductive in every interleaving of   *)
(* the main thread, the session thread and the agent.                      *)
(***************************************************************************)
EXTENDS AcpSession, TLAPS

\* Nothing has happened yet when the adapter is made.
LEMMA InitAcpInv == Init => AcpInv
<1> SUFFICES ASSUME Init PROVE AcpInv
  OBVIOUS
<1>1. TypeOK
  <2>1. request \in 0..Prompt  BY DEF Init, Prompt
  <2> QED
    BY <2>1, Zenon DEF Init, TypeOK
<1>2. PidInv     BY DEF Init, PidInv, KnownAgentGone, GroupUp
<1>3. AnswerInv  BY DEF Init, AnswerInv, AnswerNotLost, Prompt
<1> QED
  BY <1>1, <1>2, <1>3 DEF AcpInv

\* What the session thread does keeps the invariant; each action of _run and
\* _request on its own.
LEMMA SessionKeeps == AcpInv /\ SessionThread => AcpInv'
<1> SUFFICES ASSUME AcpInv, SessionThread PROVE AcpInv'
  OBVIOUS
<1> USE DEF AcpInv, TypeOK, PidInv, AnswerInv, AnswerNotLost, KnownAgentGone, GroupUp, Session, Prompt
<1>1. CASE Fork          BY <1>1 DEF Fork
<1>2. CASE SpawnFails    BY <1>2 DEF SpawnFails, Fails
<1>3. CASE Started
  <2>1. CASE session' = "asking"   BY <1>3, <2>1 DEF Started, Initialize
  <2>2. CASE session' = "closing"  BY <1>3, <2>2 DEF Started, Fails
  <2> QED
    BY <1>3, <2>1, <2>2 DEF Started
<1>4. CASE ReadAnswer
  <2>1. CASE session' = "asking"         BY <1>4, <2>1 DEF ReadAnswer
  <2>2. CASE session' = "closing"
    <3>1. /\ session \in {"asking", "draining"}
          /\ UNCHANGED <<main, agent, pid, known, request, answer, cancelled, result>>
      BY <1>4, <2>2 DEF ReadAnswer
    <3>2. request = Prompt /\ answer = "ok" => stopReason' = TRUE
      BY <1>4, <2>2 DEF ReadAnswer, Fails, Initialize
    <3>3. stopReason' \in BOOLEAN
      BY <1>4, <2>2 DEF ReadAnswer, Fails
    <3>4. error' \in BOOLEAN
      BY <1>4, <2>2 DEF ReadAnswer, Fails
    <3> QED
      BY <2>2, <3>1, <3>2, <3>3, <3>4
  <2> QED
    BY <1>4, <2>1, <2>2 DEF ReadAnswer
<1>5. CASE NoticeExit    BY <1>5 DEF NoticeExit
<1>6. CASE DrainEnds     BY <1>6 DEF DrainEnds, Fails
<1>7. CASE CloseSession  BY <1>7 DEF CloseSession, Killed
<1> QED
  BY <1>1, <1>2, <1>3, <1>4, <1>5, <1>6, <1>7 DEF SessionThread

\* What the main thread does keeps the invariant; each of the adapter's
\* methods, and each pause between two of them, on its own.
LEMMA MainKeeps == AcpInv /\ MainThread => AcpInv'
<1> SUFFICES ASSUME AcpInv, MainThread PROVE AcpInv'
  OBVIOUS
<1> USE DEF AcpInv, TypeOK, PidInv, AnswerInv, AnswerNotLost, KnownAgentGone, GroupUp, Main, Prompt, sessionVars
<1>1. CASE Launch           BY <1>1 DEF Launch
<1>2. CASE WaitEnds         BY <1>2 DEF WaitEnds
<1>3. CASE NaturalEnd       BY <1>3 DEF NaturalEnd
<1>4. CASE DecideToStop     BY <1>4 DEF DecideToStop
<1>5. CASE SuperviseRaises  BY <1>5 DEF SuperviseRaises
<1>6. CASE SetCancelled     BY <1>6 DEF SetCancelled
<1>7. CASE Terminate        BY <1>7 DEF Terminate, Killed
<1>8. CASE Join             BY <1>8 DEF Join
<1>9. CASE Collect          BY <1>9 DEF Collect
<1>10. CASE Clean           BY <1>10 DEF Clean, Killed
<1>11. CASE Exit            BY <1>11 DEF Exit
<1> QED
  BY <1>1, <1>2, <1>3, <1>4, <1>5, <1>6, <1>7, <1>8, <1>9, <1>10, <1>11 DEF MainThread

\* The agent answers and exits when it likes, and the invariant stays.
LEMMA AgentKeeps == AcpInv /\ (Answers \/ AgentExits) => AcpInv'
<1> SUFFICES ASSUME AcpInv, Answers \/ AgentExits PROVE AcpInv'
  OBVIOUS
<1> USE DEF AcpInv, TypeOK, PidInv, AnswerInv, AnswerNotLost, KnownAgentGone, GroupUp, Prompt, sessionVars
<1>1. CASE Answers     BY <1>1 DEF Answers
<1>2. CASE AgentExits  BY <1>2 DEF AgentExits
<1> QED
  BY <1>1, <1>2

\* The two threads and the agent, in any order, keep AcpInv.
THEOREM AcpInvariant == Spec => []AcpInv
<1>1. Init => AcpInv
  BY InitAcpInv
<1>2. AcpInv /\ [Next]_vars => AcpInv'
  <2> SUFFICES ASSUME AcpInv, [Next]_vars PROVE AcpInv'
    OBVIOUS
  <2>1. CASE UNCHANGED vars
    BY <2>1 DEF vars, AcpInv, TypeOK, PidInv, AnswerInv, AnswerNotLost, KnownAgentGone, GroupUp, Prompt
  <2>2. CASE Next
    BY <2>2, SessionKeeps, MainKeeps, AgentKeeps DEF Next
  <2> QED
    BY <2>1, <2>2
<1> QED
  BY <1>1, <1>2, PTL DEF Spec

\* The variables of adapters/acp.py keep their types.
THEOREM AcpTypeCorrect == Spec => []TypeOK
<1>1. AcpInv => TypeOK
  BY DEF AcpInv
<1> QED
  BY <1>1, AcpInvariant, PTL

\* An agent that _write_runfile found started is gone, and its group with it,
\* when the finally block of _execute has run.
THEOREM AgentGone == Spec => []KnownAgentGone
<1>1. AcpInv => KnownAgentGone
  BY DEF AcpInv, PidInv
<1> QED
  BY <1>1, AcpInvariant, PTL

\* A run that is not cancelled never reports as failed a prompt the agent has
\* answered, however soon after the answer the agent exits; unless the log that
\* the supervisor itself keeps of it cannot be written.
THEOREM AnswerKept == Spec => []AnswerNotLost
<1>1. AcpInv => AnswerNotLost
  BY DEF AcpInv, AnswerInv, AnswerNotLost
<1> QED
  BY <1>1, AcpInvariant, PTL
=============================================================================
