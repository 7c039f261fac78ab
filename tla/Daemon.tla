------------------------------- MODULE Daemon -------------------------------
(***************************************************************************)
(* The processes around the board on one host: the daemon ("run") and      *)
(* one-off passes ("tick") of the command line (cli.py), the lock that     *)
(* keeps daemons apart, and the sweep of orphans every tick begins with    *)
(* (scheduler.py), over the run files that supervisors write and remove.   *)
(* The board itself is left to module Scheduler.                           *)
(*                                                                         *)
(* at[p]: out (no such process), idle (between ticks), sweeping, judging   *)
(*        (a whole file was read), killing, blind (about to kill as well,  *)
(*        after a ps that exited with an error), unlinking, boards         *)
(***************************************************************************)

CONSTANTS Procs,  \* the places for a command line process
          Runs,   \* the runs that may be started
          Nobody

ASSUME DaemonAssumption == Nobody \notin Procs \cup Runs

VARIABLES at, cmd, \* tick as long as a place is empty
          stopping,  \* the daemon's flag, set by SIGTERM and SIGINT
          lock,      \* who holds daemon.lock
          todo,      \* the files its sweep has still to visit
          file,      \* the run whose file it is at
          sup,       \* the supervisor of a run: "none", "up", "zombie", "gone"
          parent,    \* the process that started it; Nobody once that is over
          stranger,  \* whether its pid is used by another process by now
          group,     \* the worker's group: "none", "up", "gone"
          runfile,   \* its run file: "none", "torn", "whole"
          written,   \* history: the file has been whole
          misread    \* history: a sweep has read it torn

procVars == <<at, cmd, stopping, lock, todo, file>>
runVars  == <<sup, parent, stranger, group, runfile, written, misread>>
vars == <<procVars, runVars>>

\* Every variable stays in its range; a process is at a file exactly while it deals
\* with one (scheduler.py:184-198).
TypeOK ==
  /\ at \in [Procs -> {"out", "idle", "sweeping", "judging", "killing", "blind", "unlinking",
                     "boards"}]
  /\ cmd \in [Procs -> {"run", "tick"}]
  /\ stopping \in [Procs -> BOOLEAN]
  /\ lock \in Procs \cup {Nobody}
  /\ todo \in [Procs -> SUBSET Runs]
  /\ file \in [Procs -> Runs \cup {Nobody}]
  /\ \A p \in Procs : file[p] # Nobody <=> at[p] \in {"judging", "killing", "blind", "unlinking"}
  /\ sup \in [Runs -> {"none", "up", "zombie", "gone"}]
  /\ parent \in [Runs -> Procs \cup {Nobody}]
  /\ stranger \in [Runs -> BOOLEAN]
  /\ group \in [Runs -> {"none", "up", "gone"}]
  /\ runfile \in [Runs -> {"none", "torn", "whole"}]
  /\ written \in [Runs -> BOOLEAN] /\ misread \in [Runs -> BOOLEAN]

Init ==
  /\ at = [p \in Procs |-> "out"] /\ cmd = [p \in Procs |-> "tick"]
  /\ stopping = [p \in Procs |-> FALSE] /\ lock = Nobody
  /\ todo = [p \in Procs |-> {}] /\ file = [p \in Procs |-> Nobody]
  /\ sup = [r \in Runs |-> "none"] /\ parent = [r \in Runs |-> Nobody]
  /\ stranger = [r \in Runs |-> FALSE] /\ group = [r \in Runs |-> "none"]
  /\ runfile = [r \in Runs |-> "none"]
  /\ written = [r \in Runs |-> FALSE] /\ misread = [r \in Runs |-> FALSE]

Go(p, from, to) == at[p] = from /\ at' = [at EXCEPT ![p] = to]

-----------------------------------------------------------------------------
(***************************************************************************)
(* cli.handle and run_forever                                              *)
(***************************************************************************)
\* Mutant: the lock is shared.
BeginShared(p, c) ==
  /\ Go(p, "out", "idle")
  /\ cmd' = [cmd EXCEPT ![p] = c]
  /\ lock' = IF c = "run" THEN p ELSE lock
  /\ UNCHANGED <<stopping, todo, file, runVars>>

\* A daemon takes the lock or is refused (and is out again); a tick takes none.
Begin(p, c) ==
  /\ c = "run" => lock = Nobody
  /\ Go(p, "out", "idle")
  /\ cmd' = [cmd EXCEPT ![p] = c]
  /\ lock' = IF c = "run" THEN p ELSE lock
  /\ UNCHANGED <<stopping, todo, file, runVars>>

\* The end of a process, on its own or not: the kernel drops its lock, and init
\* takes over its children and reaps the dead ones.
Over(p) ==
  /\ at' = [at EXCEPT ![p] = "out"]
  /\ todo' = [todo EXCEPT ![p] = {}] /\ file' = [file EXCEPT ![p] = Nobody]
  /\ cmd' = [cmd EXCEPT ![p] = "tick"] /\ stopping' = [stopping EXCEPT ![p] = FALSE]
  /\ parent' = [r \in Runs |-> IF parent[r] = p THEN Nobody ELSE parent[r]]
  /\ sup' = [r \in Runs |-> IF parent[r] = p /\ sup[r] = "zombie" THEN "gone" ELSE sup[r]]
  /\ UNCHANGED <<stranger, group, runfile, written, misread>>

Release(p) == lock' = IF lock = p THEN Nobody ELSE lock

\* SIGTERM: a flag for the daemon, the end of a tick.
Terminate(p) ==
  /\ at[p] # "out"
  /\ \/ /\ cmd[p] = "run"
        /\ stopping' = [stopping EXCEPT ![p] = TRUE]
        /\ UNCHANGED <<at, cmd, lock, todo, file, runVars>>
     \/ cmd[p] = "tick" /\ Over(p) /\ Release(p)

\* Mutant: the lock is inherited by the supervisors, which outlive the daemon.
DieInherited(p) ==
  /\ at[p] # "out" /\ Over(p)
  /\ lock' = IF lock = p /\ ~\E r \in Runs : parent[r] = p /\ sup[r] = "up" THEN Nobody ELSE lock

Die(p) == at[p] # "out" /\ Over(p) /\ Release(p)

\* Mutant: the flag is set and never looked at.
StopNever(p) == FALSE /\ Over(p) /\ Release(p)

\* The loop sees the flag between two ticks, and __exit__ unlocks.
Stop(p) == at[p] = "idle" /\ stopping[p] /\ Over(p) /\ Release(p)

\* A tick is over: the daemon sleeps, the command ends.
EndTick(p) ==
  IF cmd[p] = "run"
  THEN /\ at' = [at EXCEPT ![p] = "idle"]
       /\ todo' = [todo EXCEPT ![p] = {}] /\ file' = [file EXCEPT ![p] = Nobody]
       /\ UNCHANGED <<cmd, stopping, lock, runVars>>
  ELSE Over(p) /\ Release(p)

\* A listing or an unlink raises: the daemon logs it, the command dies of it.
TickRaises(p) == at[p] \in {"sweeping", "unlinking"} /\ EndTick(p)

-----------------------------------------------------------------------------
(***************************************************************************)
(* tick: reap, sweep_orphans, then the boards                              *)
(***************************************************************************)
StartTick(p) ==
  /\ ~stopping[p]
  /\ Go(p, "idle", "sweeping")
  /\ sup' = [r \in Runs |-> IF parent[r] = p /\ sup[r] = "zombie" THEN "gone" ELSE sup[r]]
  /\ todo' = [todo EXCEPT ![p] = {r \in Runs : runfile[r] # "none"}]
  /\ UNCHANGED <<cmd, stopping, lock, file, parent, stranger, group, runfile, written, misread>>

\* A file that cannot be read, or that is not there any more, is removed.
ReadFile(p) ==
  /\ at[p] = "sweeping"
  /\ \E r \in todo[p] :
       /\ file' = [file EXCEPT ![p] = r]
       /\ todo' = [todo EXCEPT ![p] = @ \ {r}]
       /\ at' = [at EXCEPT ![p] = IF runfile[r] = "whole" THEN "judging" ELSE "unlinking"]
       /\ misread' = [misread EXCEPT ![r] = @ \/ runfile[r] = "torn"]
  /\ UNCHANGED <<cmd, stopping, lock, sup, parent, stranger, group, runfile, written>>

\* Mutant: a supervisor whose file is there counts as dead.
JudgeDead(p) ==
  /\ at[p] = "judging"
  /\ at' = [at EXCEPT ![p] = IF group[file[p]] = "up" THEN "killing" ELSE "unlinking"]
  /\ UNCHANGED <<cmd, stopping, lock, todo, file, runVars>>

\* _pid_alive and group_alive.  ps tells a zombie, which is dead, from a living
\* process.  If ps cannot be run or is too slow ("raises"), whatever has the pid
\* counts as alive; if it exits with an error ("fails"), even a living supervisor
\* counts as dead.  A stranger that is a zombie or whose signal is not permitted
\* is judged as if ps failed or raised.
Judge(p) ==
  /\ at[p] = "judging"
  /\ \E ps \in {"answers", "raises", "fails"} :
       LET r == file[p]
           exists == sup[r] \in {"up", "zombie"} \/ stranger[r]
           alive == /\ exists /\ ps # "fails"
                    /\ ps = "answers" => sup[r] = "up" \/ stranger[r]
       IN   /\ at' = [at EXCEPT ![p] = IF alive THEN "sweeping"
                                       ELSE IF group[r] # "up" THEN "unlinking"
                                       ELSE IF exists /\ ps = "fails" THEN "blind"
                                       ELSE "killing"]
            /\ file' = [file EXCEPT ![p] = IF alive THEN Nobody ELSE @]
  /\ UNCHANGED <<cmd, stopping, lock, todo, runVars>>

KillGroup(p) ==
  /\ Go(p, "killing", "unlinking") \/ Go(p, "blind", "unlinking")
  /\ group' = [group EXCEPT ![file[p]] = "gone"]
  /\ UNCHANGED <<cmd, stopping, lock, todo, file, sup, parent, stranger, runfile, written, misread>>

\* Mutant: the sweep goes on with the file it is at still open.
UnlinkOpen(p) ==
  /\ Go(p, "unlinking", "sweeping")
  /\ runfile' = [runfile EXCEPT ![file[p]] = "none"]
  /\ UNCHANGED <<cmd, stopping, lock, todo, file, sup, parent, stranger, group, written, misread>>

UnlinkFile(p) ==
  /\ Go(p, "unlinking", "sweeping")
  /\ runfile' = [runfile EXCEPT ![file[p]] = "none"] /\ file' = [file EXCEPT ![p] = Nobody]
  /\ UNCHANGED <<cmd, stopping, lock, todo, sup, parent, stranger, group, written, misread>>

SweepDone(p) ==
  /\ todo[p] = {}
  /\ Go(p, "sweeping", "boards")
  /\ UNCHANGED <<cmd, stopping, lock, todo, file, runVars>>

\* The boards: a supervisor is started, or there is nothing more to do.
SpawnSupervisor(p) ==
  /\ at[p] = "boards"
  /\ \E r \in Runs :
       /\ sup[r] = "none"
       /\ sup' = [sup EXCEPT ![r] = "up"]
       /\ parent' = [parent EXCEPT ![r] = p]
  /\ UNCHANGED <<procVars, stranger, group, runfile, written, misread>>

BoardsDone(p) == at[p] = "boards" /\ EndTick(p)

TickStep(p) ==
  \/ StartTick(p) \/ ReadFile(p) \/ Judge(p) \/ KillGroup(p) \/ UnlinkFile(p) \/ SweepDone(p)
  \/ SpawnSupervisor(p) \/ BoardsDone(p)

-----------------------------------------------------------------------------
(***************************************************************************)
(* Supervisors and workers, as far as run files go (module Supervisor)     *)
(***************************************************************************)
Launch(r) ==
  /\ sup[r] = "up" /\ group[r] = "none"
  /\ group' = [group EXCEPT ![r] = "up"]
  /\ UNCHANGED <<procVars, sup, parent, stranger, runfile, written, misread>>

\* write_text: the file is there, and empty, before it has its content; what
\* is written to an unlinked file is lost with it.
BeginRunfile(r) ==
  /\ sup[r] = "up" /\ group[r] = "up" /\ runfile[r] = "none" /\ ~written[r] /\ ~misread[r]
  /\ runfile' = [runfile EXCEPT ![r] = "torn"]
  /\ UNCHANGED <<procVars, sup, parent, stranger, group, written, misread>>

EndRunfile(r) ==
  /\ sup[r] = "up" /\ ~written[r]
  /\ runfile[r] = "torn" \/ misread[r]
  /\ runfile' = [runfile EXCEPT ![r] = IF @ = "torn" THEN "whole" ELSE "none"]
  /\ written' = [written EXCEPT ![r] = TRUE]
  /\ UNCHANGED <<procVars, sup, parent, stranger, group, misread>>

WorkerEnds(r) ==
  /\ group[r] = "up"
  /\ group' = [group EXCEPT ![r] = "gone"]
  /\ UNCHANGED <<procVars, sup, parent, stranger, runfile, written, misread>>

\* Mutant: the file goes before the group.
UnlinkEarly(r) ==
  /\ sup[r] = "up" /\ written[r] /\ runfile[r] # "none"
  /\ runfile' = [runfile EXCEPT ![r] = "none"]
  /\ UNCHANGED <<procVars, sup, parent, stranger, group, written, misread>>

\* The finally block of _execute, its group gone.
Unlink(r) ==
  /\ sup[r] = "up" /\ group[r] = "gone" /\ written[r] /\ runfile[r] # "none"
  /\ runfile' = [runfile EXCEPT ![r] = "none"]
  /\ UNCHANGED <<procVars, sup, parent, stranger, group, written, misread>>

\* A supervisor ends or is killed, wherever it is: a zombie as long as the
\* process that started it lives and has not reaped it.
SupervisorEnds(r) ==
  /\ sup[r] = "up"
  /\ sup' = [sup EXCEPT ![r] = IF parent[r] = Nobody THEN "gone" ELSE "zombie"]
  /\ UNCHANGED <<procVars, parent, stranger, group, runfile, written, misread>>

\* The kernel gives its pid to somebody, and that ends in turn.  That a group id
\* is given away while a file names it is assumed not to happen.
PidReused(r) ==
  /\ sup[r] = "gone"
  /\ stranger' = [stranger EXCEPT ![r] = ~@]
  /\ UNCHANGED <<procVars, sup, parent, group, runfile, written, misread>>

Supervise(r) ==
  \/ Launch(r) \/ BeginRunfile(r) \/ EndRunfile(r) \/ WorkerEnds(r) \/ Unlink(r)
  \/ SupervisorEnds(r) \/ PidReused(r)

Next ==
  \/ \E p \in Procs : \/ \E c \in {"run", "tick"} : Begin(p, c)
                      \/ Terminate(p) \/ Die(p) \/ Stop(p) \/ TickRaises(p) \/ TickStep(p)
  \/ \E r \in Runs : Supervise(r)

Spec == Init /\ [][Next]_vars

\* A process goes on with its tick and looks at its flag.
FairSpec == Spec /\ \A p \in Procs : WF_vars(TickStep(p)) /\ WF_vars(Stop(p))

-----------------------------------------------------------------------------
(***************************************************************************)
(* Properties                                                              *)
(***************************************************************************)
Daemons == {p \in Procs : at[p] # "out" /\ cmd[p] = "run"}

\* There is never more than one daemon per home, whatever dies; and when there
\* is none, neither a crash nor a supervisor that lives on keeps the next one
\* out (scheduler.py:154, :160-177).
LockIsTheDaemons == Daemons = IF lock = Nobody THEN {} ELSE {lock}

\* Unless ps exits with an error, the sweep is only ever about to kill the worker
\* of a supervisor that is dead, however long ago it read the file
\* (scheduler.py:191-196).  After such a ps (:212) it kills blindly.
SweepSparesSupervised == \A p \in Procs : at[p] = "killing" => sup[file[p]] \in {"zombie", "gone"}

\* A worker without a supervisor can be found: its file is there, unless the
\* supervisor died before it was written or a sweep saw it half written
\* (scheduler.py:188, supervisor.py:137).  A sweep that takes a living supervisor
\* for a dead one kills the worker before it removes the file.
OrphanHasFile ==
  \A r \in Runs : sup[r] \in {"zombie", "gone"} /\ group[r] = "up" =>
    runfile[r] = "whole" \/ ~written[r] \/ misread[r]

(***************************************************************************)
(* The inductive invariant behind these (proved in DaemonProofs)           *)
(***************************************************************************)
\* No worker without a supervisor, no file without a worker; while the worker
\* lives, a file that was whole stays, unless a sweep has seen it torn.
FileInv(r) ==
  /\ sup[r] = "none" => group[r] = "none"
  /\ group[r] = "none" => runfile[r] = "none" /\ ~written[r] /\ ~misread[r]
  /\ runfile[r] = "whole" => written[r]
  /\ written[r] /\ ~misread[r] /\ group[r] = "up" => runfile[r] = "whole"

\* What a sweep has read stays true while it acts upon it.
VisitInv(p) ==
  /\ \A r \in todo[p] : group[r] # "none" /\ (runfile[r] # "none" \/ written[r] \/ misread[r])
  /\ at[p] \in {"judging", "blind"} => written[file[p]]
  /\ at[p] = "killing" => written[file[p]] /\ sup[file[p]] \in {"zombie", "gone"}
  /\ at[p] = "unlinking" => misread[file[p]] \/ (written[file[p]] /\ group[file[p]] = "gone")

DaemonInv ==
  /\ TypeOK
  /\ LockIsTheDaemons
  /\ \A r \in Runs : FileInv(r)
  /\ \A p \in Procs : VisitInv(p)

\* A daemon that is told to stop does, at the latest after the tick it is in
\* (scheduler.py:143).
StopIsHeeded == \A p \in Procs : stopping[p] /\ at[p] # "out" ~> at[p] = "out"
=============================================================================
