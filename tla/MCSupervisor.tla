---------------------------- MODULE MCSupervisor ----------------------------
(* Instances of Supervisor for TLC: the sets of failures the runs allow.   *)
(* Reclaims, crash bookings and requeues are possible in every one.        *)
EXTENDS Supervisor

\* What can go wrong inside a supervisor and lets it end by itself.
InsideFaults == {"open", "raise", "runfile", "unfit", "write"}
\* What happens to its claim from outside, and the disk that fails under it.
OutsideFaults == {"quiet", "runsdir", "log"}
\* Claim-only mode with every failure that is not an exception in the run.
ClaimOnlyFaults == {"unfit", "open", "runfile", "spawn", "quiet", "kill"}
\* What a supervisor meets while it runs, for liveness.
LivenessFaults == {"open", "unfit", "raise", "runfile", "write", "quiet", "kill"}
=============================================================================
