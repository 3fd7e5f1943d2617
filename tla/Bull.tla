-------------------------------- MODULE Bull --------------------------------
(***************************************************************************)
(* A job of a Bull queue (bull 4.8.5, with the options app.module.ts and   *)
(* the two processors leave at their defaults): one attempt, one job at a  *)
(* time per queue, a lock that the worker renews while it runs.  Jobs live *)
(* in Redis and survive the server.  A job whose lock is gone is found     *)
(* stalled and runs again from its start, MaxStalled times at most.        *)
(***************************************************************************)
EXTENDS Integers

CONSTANT MaxStalled     \* maxStalledCount

ASSUME StalledAssumption == MaxStalled \in Nat

Job == [state : {"None", "Wait", "Active", "Completed", "Failed"},
        stalls : 0..MaxStalled + 1, lock : BOOLEAN]

NoJob    == [state |-> "None", stalls |-> 0, lock |-> FALSE]
AddedJob == [state |-> "Wait", stalls |-> 0, lock |-> FALSE]

Settled(job) == job.state \in {"Completed", "Failed"}

Takeable(job) == job.state = "Wait"
Taken(job) == [job EXCEPT !.state = "Active", !.lock = TRUE]

\* The process function returned: only the holder of the lock ends the job.
Returned(job) == IF job.lock THEN [job EXCEPT !.state = "Completed", !.lock = FALSE] ELSE job

\* The worker died, was blocked or could not reach Redis until its lock expired.
Unlocked(job) == [job EXCEPT !.lock = FALSE]

Stalled(job) == job.state = "Active" /\ ~job.lock
RecoveredForEver(job) == [job EXCEPT !.stalls = job.stalls + 1, !.state = "Wait"]
Recovered(job) ==
    [job EXCEPT !.stalls = job.stalls + 1,
                !.state = IF job.stalls < MaxStalled THEN "Wait" ELSE "Failed"]

\* Runs of the job that have begun.
Runs(job) == IF job.state \in {"Active", "Completed"} THEN job.stalls + 1 ELSE job.stalls
=============================================================================
