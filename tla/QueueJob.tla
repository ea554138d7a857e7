------------------------------- MODULE QueueJob -------------------------------
(***************************************************************************)
(* The BullMQ job that carries one piece of work, as the queues of this    *)
(* repository use it: added under the public id of a row, handed to a      *)
(* worker under a lock, retried with a backoff, failed when it has stalled *)
(* too often, removed by a retention rule.  BullMQ itself is not part of   *)
(* the repository; the two pipelines extend this module and say when each  *)
(* of its steps may happen.                                                *)
(***************************************************************************)
EXTENDS Naturals

CONSTANTS
  Workers,     \* slots for job executions, over all processes
  NoWorker     \* no execution

ASSUME NoWorkerAssumption == NoWorker \notin Workers

VARIABLE job   \* where the job is, its failed attempts, its stalls, its lock

MaxStalled == 1
Finished == {"completed", "failed"}

(* The jobs that may be attempted n times. *)
JobsOf(n) ==
  [at : {"none", "waiting", "delayed", "active", "completed", "failed"},
   made : 0..n, stalls : 0..MaxStalled, holder : Workers \cup {NoWorker}]

NoJob == [at |-> "none", made |-> 0, stalls |-> 0, holder |-> NoWorker]

MutAddJobWithoutId == job' = [NoJob EXCEPT !.at = "waiting"]

(* add under an id that exists does nothing; an active job is not removed. *)
AddJob == job' = IF job.at = "none" THEN [NoJob EXCEPT !.at = "waiting"] ELSE job
RemoveJob == job' = IF job.at = "active" THEN job ELSE NoJob

HandOut(w) ==
  /\ job.at = "waiting"
  /\ job' = [job EXCEPT !.at = "active", !.holder = w]

(* The outcome of an execution counts if it still holds the job's lock.    *)
(* Failed attempts are counted up to n: more make no difference.           *)
Report(w, ok, final, n) ==
  job' =
    IF job.at # "active" \/ job.holder # w THEN job
    ELSE IF ok THEN [job EXCEPT !.at = "completed", !.holder = NoWorker]
    ELSE [job EXCEPT !.at = IF final THEN "failed" ELSE "delayed",
                     !.made = IF @ < n THEN @ + 1 ELSE @, !.holder = NoWorker]

(* The backoff of a failed attempt elapses. *)
Backoff == job.at = "delayed" /\ job' = [job EXCEPT !.at = "waiting"]

(* The lock of an active job ran out: once it is given to another worker,  *)
(* after that it is failed without a call of the processor.                *)
LoseLock ==
  /\ job.at = "active"
  /\ job' = IF job.stalls < MaxStalled
              THEN [job EXCEPT !.at = "waiting", !.stalls = @ + 1, !.holder = NoWorker]
              ELSE [job EXCEPT !.at = "failed", !.holder = NoWorker]

(* Retention removes finished jobs. *)
Retain == job.at \in Finished /\ job' = NoJob
=============================================================================
