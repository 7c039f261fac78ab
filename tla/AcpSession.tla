----------------------------- MODULE AcpSession -----------------------------
(***************************************************************************)
(* One run of the ACP adapter (adapters/acp.py): the supervisor's main     *)
(* thread and the session thread it starts, which spawns the agent and     *)
(* asks it three things in turn: initialize, new_session, prompt.  The     *)
(* threads share _proc, _cancelled, _error and _stop_reason, no lock, and  *)
(* each reads them when it comes by.                                       *)
(*                                                                         *)
(* main:     new, waiting (for a pid, _write_runfile), supervising,        *)
(*           stopping (poll was false, cancel is next), terminating,       *)
(*           joining, collecting, cleaning (finally), applying, exited     *)
(* session:  none, spawning, forked (the agent lives, _proc is not set),   *)
(*           asking, draining, closing (finally), done; dead when the      *)
(*           process exited under the thread                               *)
(***************************************************************************)
EXTENDS Integers

VARIABLES main, session,
          agent,       \* the agent's process group: "none", "up", "leftover", "gone"
          pid,         \* whether _proc is set
          known,       \* whether it was when _write_runfile stopped waiting for it
          request,     \* the request asked last, 0 before the first
          answer,      \* what the agent wrote to it: "none", "ok", "error"
          error,       \* whether _error is set
          stopReason,  \* whether _stop_reason is set
          cancelled,   \* whether _cancelled is set
          result       \* what collect_result returned: "none", "cancelled", "failed", "answered"

vars == <<main, session, agent, pid, known, request, answer, error, stopReason, cancelled, result>>
sessionVars == <<session, pid, request, error, stopReason>>

Initialize == 1
Prompt     == 3   \* the last request; new_session is 2

TypeOK ==
  /\ main \in {"new", "waiting", "supervising", "stopping", "terminating", "joining",
               "collecting", "cleaning", "applying", "exited"}
  /\ session \in {"none", "spawning", "forked", "asking", "draining", "closing", "done", "dead"}
  /\ agent \in {"none", "up", "leftover", "gone"}
  /\ request \in 0..Prompt
  /\ answer \in {"none", "ok", "error"}
  /\ pid \in BOOLEAN /\ known \in BOOLEAN /\ error \in BOOLEAN /\ stopReason \in BOOLEAN /\ cancelled \in BOOLEAN
  /\ result \in {"none", "cancelled", "failed", "answered"}

Init ==
  /\ main = "new" /\ session = "none" /\ agent = "none" /\ pid = FALSE /\ known = FALSE
  /\ request = 0 /\ answer = "none" /\ error = FALSE /\ stopReason = FALSE
  /\ cancelled = FALSE /\ result = "none"

GroupUp   == agent \in {"up", "leftover"}
Exited    == agent \in {"leftover", "gone"}       \* _proc.wait() has returned
Killed    == IF GroupUp THEN "gone" ELSE agent    \* after terminate_group

-----------------------------------------------------------------------------
(***************************************************************************)
(* The session thread: _run and _request                                   *)
(***************************************************************************)
Session(from, to) == session = from /\ session' = to

\* create_subprocess_exec has forked; its result is not assigned yet.
Fork ==
  /\ Session("spawning", "forked")
  /\ agent' = "up"
  /\ UNCHANGED <<main, pid, known, request, answer, error, stopReason, cancelled, result>>

\* An exception that comes after the cancel is the cancel's own doing.
Fails == error' = (error \/ ~cancelled) /\ UNCHANGED stopReason

SpawnFails ==
  /\ Session("spawning", "closing")
  /\ Fails
  /\ UNCHANGED <<main, agent, pid, known, request, answer, cancelled, result>>

\* _proc is set; a log that cannot be written ends the session, here and below.
Started ==
  /\ pid' = TRUE
  /\ \/ Session("forked", "asking") /\ request' = Initialize /\ UNCHANGED <<error, stopReason>>
     \/ Session("forked", "closing") /\ Fails /\ UNCHANGED request
  /\ UNCHANGED <<main, agent, known, answer, cancelled, result>>

\* Mutant: the answer to the prompt is not the last one expected.
ReadAnswerOn ==
  /\ session \in {"asking", "draining"} /\ answer = "ok"
  /\ session' = "asking" /\ request' = request + 1 /\ answer' = "none"
  /\ UNCHANGED <<main, agent, pid, known, error, stopReason, cancelled, result>>

\* The request is done: on to the next one, or to the end of the try.
ReadAnswer ==
  /\ session \in {"asking", "draining"} /\ answer # "none"
  /\ \/ /\ answer = "ok" /\ request < Prompt
        /\ session' = "asking" /\ request' = request + 1 /\ answer' = "none"
        /\ UNCHANGED <<error, stopReason>>
     \/ /\ answer = "ok" /\ request = Prompt
        /\ session' = "closing" /\ stopReason' = TRUE
        /\ UNCHANGED <<request, answer, error>>
     \/ /\ answer = "ok" /\ request = Prompt
        /\ session' = "closing" /\ stopReason' = TRUE /\ error' = (error \/ ~cancelled)
        /\ UNCHANGED <<request, answer>>
     \/ /\ answer = "error" \/ request = Initialize
        /\ session' = "closing" /\ Fails
        /\ UNCHANGED <<request, answer>>
  /\ UNCHANGED <<main, agent, pid, known, cancelled, result>>

\* The agent has exited and the request is not done: one more second for an
\* answer that may still be in the pipe.
\* Mutant: the exit is not waited for.
NoticeNothing == FALSE /\ UNCHANGED vars

NoticeExit ==
  /\ Exited
  /\ Session("asking", "draining")
  /\ UNCHANGED <<main, agent, pid, known, request, answer, error, stopReason, cancelled, result>>

\* Mutant: the second is not granted.
DrainNothing ==
  /\ Session("draining", "closing")
  /\ Fails
  /\ UNCHANGED <<main, agent, pid, known, request, answer, cancelled, result>>

\* A second is enough to read what has been written.
DrainEnds ==
  /\ answer = "none"
  /\ Session("draining", "closing")
  /\ Fails
  /\ UNCHANGED <<main, agent, pid, known, request, answer, cancelled, result>>

\* finally: an agent that still runs gets its stdin closed and five seconds.
CloseSession ==
  /\ Session("closing", "done")
  /\ agent' = IF agent = "up" THEN Killed ELSE agent
  /\ UNCHANGED <<main, pid, known, request, answer, error, stopReason, cancelled, result>>

SessionThread ==
  \/ Fork \/ SpawnFails \/ Started \/ ReadAnswer \/ NoticeExit \/ DrainEnds \/ CloseSession

-----------------------------------------------------------------------------
(***************************************************************************)
(* The main thread: supervisor.py's calls of the adapter                   *)
(***************************************************************************)
Main(from, to) == main = from /\ main' = to

Launch ==
  /\ Main("new", "waiting")
  /\ session' = "spawning"
  /\ UNCHANGED <<agent, pid, known, request, answer, error, stopReason, cancelled, result>>

\* _write_runfile: a pid, a finished session, or five seconds; the run file is
\* written if there is a pid then.
WaitEnds ==
  /\ Main("waiting", "supervising")
  /\ known' = pid
  /\ UNCHANGED <<sessionVars, agent, answer, cancelled, result>>

\* poll: the session thread is not alive any more.
NaturalEnd ==
  /\ session = "done"
  /\ Main("supervising", "collecting")
  /\ UNCHANGED <<sessionVars, known, agent, answer, cancelled, result>>

\* poll was false, and there is a reason to stop; the session goes on meanwhile.
DecideToStop ==
  /\ session # "done"
  /\ Main("supervising", "stopping")
  /\ UNCHANGED <<sessionVars, known, agent, answer, cancelled, result>>

SuperviseRaises ==
  /\ Main("supervising", "cleaning")
  /\ UNCHANGED <<sessionVars, known, agent, answer, cancelled, result>>

\* cancel: first the flag (and a polite session/cancel, which an agent may
\* answer or ignore like anything else) ...
SetCancelled ==
  /\ Main("stopping", "terminating")
  /\ cancelled' = TRUE
  /\ UNCHANGED <<sessionVars, known, agent, answer, result>>

\* ... then the group, if there is a pid to know it by ...
Terminate ==
  /\ Main("terminating", "joining")
  /\ agent' = IF pid THEN Killed ELSE agent
  /\ UNCHANGED <<sessionVars, known, answer, cancelled, result>>

\* Mutant: the session thread is joined without a timeout.
JoinForever ==
  /\ session = "done"
  /\ Main("joining", "collecting")
  /\ UNCHANGED <<sessionVars, known, agent, answer, cancelled, result>>

\* ... and three seconds for the session thread, finished or not.
Join ==
  /\ Main("joining", "collecting")
  /\ UNCHANGED <<sessionVars, known, agent, answer, cancelled, result>>

\* collect_result; every status the agent's own words may carry is "answered".
Collect ==
  /\ Main("collecting", "cleaning")
  /\ result' = IF cancelled THEN "cancelled"
               ELSE IF error THEN "failed" ELSE "answered"
  /\ UNCHANGED <<sessionVars, known, agent, answer, cancelled>>

\* Mutant: leftovers in the agent's group are ignored.
CleanNothing ==
  /\ Main("cleaning", "applying")
  /\ UNCHANGED <<sessionVars, known, agent, answer, cancelled, result>>

\* The finally block of Supervisor._execute.
Clean ==
  /\ Main("cleaning", "applying")
  /\ agent' = IF pid THEN Killed ELSE agent
  /\ UNCHANGED <<sessionVars, known, answer, cancelled, result>>

\* The process ends, and a session thread that still runs with it.
Exit ==
  /\ Main("applying", "exited")
  /\ session' = IF session = "done" THEN "done" ELSE "dead"
  /\ UNCHANGED <<agent, pid, known, request, answer, error, stopReason, cancelled, result>>

MainThread ==
  \/ Launch \/ WaitEnds \/ NaturalEnd \/ DecideToStop \/ SuperviseRaises \/ SetCancelled
  \/ Terminate \/ Join \/ Collect \/ Clean \/ Exit

-----------------------------------------------------------------------------
(***************************************************************************)
(* The agent                                                               *)
(***************************************************************************)
\* It answers what it was asked, ...
Answers ==
  /\ agent = "up" /\ session = "asking" /\ answer = "none"
  /\ answer' \in {"ok", "error"}
  /\ UNCHANGED <<main, sessionVars, known, agent, cancelled, result>>

\* ... or exits, with or without leaving others in its group.
AgentExits ==
  /\ GroupUp
  /\ \/ agent' = "gone"
     \/ agent = "up" /\ agent' = "leftover"
  /\ UNCHANGED <<main, sessionVars, known, answer, cancelled, result>>

Next == SessionThread \/ MainThread \/ Answers \/ AgentExits

Spec == Init /\ [][Next]_vars

-----------------------------------------------------------------------------
(***************************************************************************)
(* Properties                                                              *)
(***************************************************************************)
\* What module Supervisor takes for granted of an adapter: once the finally
\* block is through, the agent and whatever it spawned is gone, although two
\* threads kill, spawn and wait for it without a lock.  It holds of an agent
\* that was started within _write_runfile's wait.
KnownAgentGone == main \in {"applying", "exited"} /\ known => ~GroupUp

\* An agent that answers the prompt and exits at once is not reported as
\* having exited before it answered: if the run fails all the same, it is of
\* the log, after the stop reason was taken.
AnswerNotLost == result = "failed" /\ request = Prompt /\ answer = "ok" => stopReason

(***************************************************************************)
(* The inductive invariant behind the two (proved in AcpProofs)            *)
(***************************************************************************)
\* A pid once set stays set, and there is no second agent: the one that is
\* killed by its pid was the only one.
PidInv ==
  /\ known => pid
  /\ pid => session \notin {"none", "spawning", "forked"}
  /\ KnownAgentGone

\* A session that is over has taken the answer it was given; only a finished
\* session, or a cancelled one, is collected.
AnswerInv ==
  /\ session \in {"none", "spawning", "forked"} => request = 0
  /\ error => session \in {"closing", "done", "dead"}
  /\ session \in {"closing", "done", "dead"} /\ request = Prompt /\ answer = "ok" =>
       session = "dead" \/ stopReason
  /\ session = "none" <=> main = "new"
  /\ main \in {"terminating", "joining"} => cancelled
  /\ main = "collecting" => cancelled \/ session = "done"
  /\ result = "failed" => session = "done" /\ main \in {"cleaning", "applying", "exited"} /\ AnswerNotLost

AcpInv == TypeOK /\ PidInv /\ AnswerInv

\* The two threads' own code goes on.  The agent and create_subprocess_exec owe
\* nothing, nor need there ever be a reason to stop: the lane's timeout may be long.
MainGoesOn    == MainThread /\ (main = "supervising" => NaturalEnd)
SessionGoesOn == Started \/ ReadAnswer \/ NoticeExit \/ DrainEnds \/ CloseSession
FairSpec      == Spec /\ WF_vars(MainGoesOn) /\ WF_vars(SessionGoesOn)

\* An agent that crashes in the middle of a request ends the session, without
\* the lane's timeout, although the connection never rejects that request.
CrashEndsSession ==
  session = "asking" /\ Exited ~> session \in {"done", "dead"}

\* A cancel comes to its end even when the session thread never does.
CancelEnds == main = "stopping" ~> main = "exited"
=============================================================================
